---- MODULE Spec2Model ----
(***************************************************************************)
(* Model of the grammar engine of KRS-Ambiguity-Checker:                   *)
(*   src/src/engine/parser.ts  parseGrammar, grammarToString,              *)
(*                             detectAmbiguity                             *)
(*   src/src/engine/types.ts   computeFirstFollow, computeFirstOfString,   *)
(*                             checkLL1Conflicts                           *)
(*   src/unnamed/part_000      transformGrammar and its four passes        *)
(*   src/src/engine/parsetree.ts  generateParseTrees, generateSampleStrings*)
(*   src/src/components/ParseTreeView.tsx  buildDisplayTrees               *)
(*   src/src/pages/Index.tsx   handleAnalyze and the state of the page     *)
(* Text is a sequence of one-character strings; a symbol's value and every *)
(* member of a FIRST/FOLLOW set is such a sequence.                        *)
(***************************************************************************)
EXTENDS Naturals, Sequences, FiniteSets, TLC

VARIABLES
  pc,         \* position of the run: which call has returned
  source,     \* the form the input text was typed from: items and spacing style
  input,      \* the text handed to parseGrammar
  result,     \* what parseGrammar(input) returned
  reparsed,   \* what parseGrammar(grammarToString(result.grammar)) returned
  grammar,    \* the Grammar handed to computeFirstFollow / detectAmbiguity
  first,      \* computeFirstFollow: the local map `first`
  follow,     \* computeFirstFollow: the local map `follow`
  changed,    \* computeFirstFollow: the local flag `changed`
  iters,      \* number of completed iterations of the running while loop
  conflicts,  \* what checkLL1Conflicts returned
  ambiguity,  \* what detectAmbiguity returned
  store,      \* the Map and Set objects allocated so far, by reference
  given,      \* the Grammar object handed to transformGrammar
  current,    \* transformGrammar: the local `current`
  steps,      \* transformGrammar: the local `steps`
  modified,   \* transformGrammar: the local flag `modified`
  outcome,    \* what transformGrammar returned
  once,       \* what one pass returned when called on `grammar`
  twice,      \* what the same pass returned when called on its own output
  nodeCounter, \* parsetree.ts: the counter `nodeCounter` of the module
  trees,      \* the trees built so far by the running tree build
  samples,    \* what generateSampleStrings returned
  limits,     \* the bounds the running build or sample call was given
  page,       \* Index.tsx: the state of the page (its useState cells)
  pending     \* Index.tsx: the text the waiting setTimeout callback will analyze

\* the values of a transformation run
tvars == <<store, given, current, steps, modified, outcome, once, twice>>

\* the values of a tree build, a sample call and the page
uvars == <<nodeCounter, trees, samples, limits, page, pending>>

vars == <<pc, source, input, result, reparsed, grammar, first, follow, changed,
          iters, conflicts, ambiguity, store, given, current, steps, modified,
          outcome, once, twice, nodeCounter, trees, samples, limits, page, pending>>

(***************************************************************************)
(* Generic helpers on sequences                                            *)
(***************************************************************************)
Range(s) == {s[i] : i \in 1..Len(s)}

\* Set.add on an insertion-ordered set kept as a duplicate-free sequence
SetAdd(s, x) == IF x \in Range(s) THEN s ELSE Append(s, x)

RECURSIVE Concat(_)
Concat(ss) == IF ss = <<>> THEN <<>> ELSE Head(ss) \o Concat(Tail(ss))

\* Array.join(sep) on a sequence of texts
RECURSIVE Join(_, _)
Join(ss, sep) ==
  IF ss = <<>> THEN <<>>
  ELSE IF Len(ss) = 1 THEN ss[1]
  ELSE ss[1] \o sep \o Join(Tail(ss), sep)

\* the sequences of n members of S
RECURSIVE SeqsOfLen(_, _)
SeqsOfLen(S, n) ==
  IF n = 0 THEN {<<>>} ELSE {Append(s, x) : s \in SeqsOfLen(S, n - 1), x \in S}

Null == <<>>
Some(x) == <<x>>

(***************************************************************************)
(* Character classes of the regular expressions in parser.ts              *)
(***************************************************************************)
Upper == {"A","B","C","D","E","F","G","H","I","J","K","L","M",
          "N","O","P","Q","R","S","T","U","V","W","X","Y","Z"}
Lower == {"a","b","c","d","e","f","g","h","i","j","k","l","m",
          "n","o","p","q","r","s","t","u","v","w","x","y","z"}
Digit == {"0","1","2","3","4","5","6","7","8","9"}
\* \s, and what String.trim strips
WhiteSpace == {" ", "\t", "\r"}
\* what `.` does not match (\n never occurs inside a line)
LineTerminator == {"\r"}

EpsilonValue == <<"ε">>
EndMarker == <<"$">>

\* /^[A-Z][A-Za-z0-9'_]*$/
IsNonTerminalName(t) ==
  /\ Len(t) >= 1
  /\ t[1] \in Upper
  /\ \A i \in 2..Len(t) : t[i] \in Upper \cup Lower \cup Digit \cup {"'", "_"}

(***************************************************************************)
(* String primitives                                                       *)
(***************************************************************************)
\* String.split(c) for a one-character separator
RECURSIVE SplitOn(_, _)
SplitOn(s, c) ==
  IF \A i \in 1..Len(s) : s[i] # c THEN <<s>>
  ELSE LET k == CHOOSE i \in 1..Len(s) :
                  s[i] = c /\ \A j \in 1..(i-1) : s[j] # c
       IN <<SubSeq(s, 1, k-1)>> \o SplitOn(SubSeq(s, k+1, Len(s)), c)

\* String.trim
Trim(s) ==
  IF \A i \in 1..Len(s) : s[i] \in WhiteSpace THEN <<>>
  ELSE LET lo == CHOOSE i \in 1..Len(s) :
                   s[i] \notin WhiteSpace /\ \A j \in 1..(i-1) : s[j] \in WhiteSpace
           hi == CHOOSE i \in 1..Len(s) :
                   s[i] \notin WhiteSpace /\ \A j \in (i+1)..Len(s) : s[j] \in WhiteSpace
       IN SubSeq(s, lo, hi)

\* the first position >= i of s that holds no white space (Len(s)+1 if none)
SkipWs(s, i) ==
  CHOOSE j \in i..(Len(s)+1) :
    /\ \A k \in i..(j-1) : s[k] \in WhiteSpace
    /\ (j <= Len(s) => s[j] \notin WhiteSpace)

\* String.split(/\s+/) of a trimmed text
RECURSIVE SplitWs(_)
SplitWs(s) ==
  IF \A i \in 1..Len(s) : s[i] \notin WhiteSpace THEN <<s>>
  ELSE LET k == CHOOSE i \in 1..Len(s) :
                  s[i] \in WhiteSpace /\ \A j \in 1..(i-1) : s[j] \notin WhiteSpace
       IN <<SubSeq(s, 1, k-1)>> \o SplitWs(SubSeq(s, SkipWs(s, k), Len(s)))

StartsWith(s, p) == Len(s) >= Len(p) /\ SubSeq(s, 1, Len(p)) = p

(***************************************************************************)
(* line.match(/^(\S+)\s*->\s*(.+)$/) on a trimmed, non-empty line.         *)
(* \S+ is greedy and gives back one character at a time, so the match is   *)
(* the one with the longest head; \s* takes the whole white-space run.     *)
(***************************************************************************)
ArrowAt(line, k) ==
  LET p == SkipWs(line, k + 1)
      q == SkipWs(line, p + 2)
  IN /\ p + 1 <= Len(line)
     /\ line[p] = "-"
     /\ line[p+1] = ">"
     /\ q <= Len(line)
     /\ \A i \in q..Len(line) : line[i] \notin LineTerminator

HeadLengths(line) ==
  {k \in 1..Len(line) :
     /\ \A i \in 1..k : line[i] \notin WhiteSpace
     /\ ArrowAt(line, k)}

ArrowMatch(line) ==
  IF HeadLengths(line) = {} THEN Null
  ELSE LET k == CHOOSE x \in HeadLengths(line) : \A y \in HeadLengths(line) : y <= x
           p == SkipWs(line, k + 1)
           q == SkipWs(line, p + 2)
       IN Some([head |-> SubSeq(line, 1, k), bodyStr |-> SubSeq(line, q, Len(line))])

(***************************************************************************)
(* Symbols, productions (an insertion-ordered Map kept as a sequence of    *)
(* [head, bodies] entries)                                                 *)
(***************************************************************************)
Sym(t, v) == [type |-> t, value |-> v]
Terminal(v) == Sym("terminal", v)
NonTerminal(v) == Sym("nonterminal", v)
Epsilon == Sym("epsilon", EpsilonValue)

Heads(prods) == [i \in 1..Len(prods) |-> prods[i].head]
MapHas(prods, h) == \E i \in 1..Len(prods) : prods[i].head = h
MapGet(prods, h) ==
  IF MapHas(prods, h)
  THEN prods[CHOOSE i \in 1..Len(prods) : prods[i].head = h].bodies
  ELSE <<>>
MapSet(prods, h, bodies) ==
  IF MapHas(prods, h)
  THEN [i \in 1..Len(prods) |->
          IF prods[i].head = h THEN [head |-> h, bodies |-> bodies] ELSE prods[i]]
  ELSE Append(prods, [head |-> h, bodies |-> bodies])

\* every symbol of every body, in iteration order
AllSymbols(prods) == Concat([i \in 1..Len(prods) |-> Concat(prods[i].bodies)])

(***************************************************************************)
(* parseSymbols                                                            *)
(***************************************************************************)
EpsilonSpellings ==
  {<<"ε">>, <<"e","p","s","i","l","o","n">>, <<"e","p","s">>}

ClassifyToken(token) ==
  IF token \in EpsilonSpellings THEN Epsilon
  ELSE IF IsNonTerminalName(token) THEN NonTerminal(token)
  ELSE Terminal(token)

ParseSymbols(body) ==
  LET tokens == SplitWs(Trim(body))
  IN [i \in 1..Len(tokens) |-> ClassifyToken(tokens[i])]

(***************************************************************************)
(* parseGrammar                                                            *)
(***************************************************************************)
Err(l, c, kind, subject) == [line |-> l, column |-> c, message |-> <<kind, subject>>]

\* the loop over the alternatives of one line (parser.ts 35-42)
RECURSIVE ScanAlternatives(_, _, _, _)
ScanAlternatives(alts, lineNo, head, acc) ==
  IF alts = <<>> THEN acc
  ELSE LET alt == Trim(Head(alts))
       IN ScanAlternatives(Tail(alts), lineNo, head,
            IF alt = <<>>
            THEN [acc EXCEPT !.errors = Append(@, Err(lineNo, 1, "EmptyAlternative", head))]
            ELSE [acc EXCEPT !.bodies = Append(@, ParseSymbols(alt))])

\* one iteration of the loop over the lines (parser.ts 11-46)
ScanLine(raw, lineNo, st) ==
  LET line == Trim(raw)
      m == ArrowMatch(line)
  IN IF line = <<>> \/ StartsWith(line, <<"/", "/">>) THEN st
     ELSE IF m = Null
     THEN [st EXCEPT !.errors = Append(@, Err(lineNo, 1, "InvalidFormat", <<>>))]
     ELSE IF ~IsNonTerminalName(m[1].head)
     THEN [st EXCEPT !.errors = Append(@, Err(lineNo, 1, "HeadNotUppercase", m[1].head))]
     ELSE LET head == m[1].head
              scanned == ScanAlternatives(SplitOn(m[1].bodyStr, "|"), lineNo, head,
                                          [errors |-> st.errors, bodies |-> <<>>])
          IN [errors |-> scanned.errors,
              productions |-> MapSet(st.productions, head,
                                     MapGet(st.productions, head) \o scanned.bodies),
              nonTerminals |-> SetAdd(st.nonTerminals, head),
              startSymbol |-> IF st.startSymbol = <<>> THEN head ELSE st.startSymbol]

RECURSIVE ScanLines(_, _, _)
ScanLines(lines, i, st) ==
  IF i > Len(lines) THEN st
  ELSE ScanLines(lines, i + 1, ScanLine(lines[i], i, st))

\* a classification that pushes onto an array instead of adding to a Set
RECURSIVE AddSymbolsPush(_, _, _)
AddSymbolsPush(syms, type, acc) ==
  IF syms = <<>> THEN acc
  ELSE AddSymbolsPush(Tail(syms), type,
         IF Head(syms).type = type THEN Append(acc, Head(syms).value) ELSE acc)

\* "Classify terminals" (parser.ts 52-63)
RECURSIVE AddSymbols(_, _, _)
AddSymbols(syms, type, acc) ==
  IF syms = <<>> THEN acc
  ELSE AddSymbols(Tail(syms), type,
         IF Head(syms).type = type THEN SetAdd(acc, Head(syms).value) ELSE acc)

\* "Check for undefined non-terminals" (parser.ts 65-70)
RECURSIVE UndefinedErrors(_, _)
UndefinedErrors(nts, prods) ==
  IF nts = <<>> THEN <<>>
  ELSE (IF ~MapHas(prods, Head(nts)) /\ Head(nts) # EpsilonValue
        THEN <<Err(0, 0, "Undefined", Head(nts))>> ELSE <<>>)
       \o UndefinedErrors(Tail(nts), prods)

\* a parser that hands back the grammar it built whatever it reported
ParseOutcomeKeepsGrammar(g, errors) == [grammar |-> Some(g), errors |-> errors]

\* the two return statements (parser.ts 72-79)
ParseOutcome(g, errors) ==
  IF Len(errors) > 0
  THEN [grammar |-> Null, errors |-> errors]
  ELSE [grammar |-> Some(g), errors |-> <<>>]

ParseGrammar(text) ==
  LET st == ScanLines(SplitOn(text, "\n"), 1,
                      [errors |-> <<>>, productions |-> <<>>,
                       nonTerminals |-> <<>>, startSymbol |-> <<>>])
      errors1 == IF Len(st.productions) = 0 /\ Len(st.errors) = 0
                 THEN <<Err(1, 1, "NoProductions", <<>>)>>
                 ELSE st.errors
      syms == AllSymbols(st.productions)
      nonTerminals == AddSymbols(syms, "nonterminal", st.nonTerminals)
      terminals == AddSymbols(syms, "terminal", <<>>)
      errors2 == errors1 \o UndefinedErrors(nonTerminals, st.productions)
  IN ParseOutcome([startSymbol |-> st.startSymbol, nonTerminals |-> nonTerminals,
                   terminals |-> terminals, productions |-> st.productions],
                  errors2)

(***************************************************************************)
(* grammarToString, formatProduction                                       *)
(***************************************************************************)
\* a serializer that joins the symbols of a body without a separator
FormatProductionGlued(head, bodies) ==
  head \o <<" ", "-", ">", " ">>
       \o Join([i \in 1..Len(bodies) |->
                  Join([j \in 1..Len(bodies[i]) |-> bodies[i][j].value], <<>>)],
               <<" ", "|", " ">>)

FormatProduction(head, bodies) ==
  head \o <<" ", "-", ">", " ">>
       \o Join([i \in 1..Len(bodies) |->
                  Join([j \in 1..Len(bodies[i]) |-> bodies[i][j].value], <<" ">>)],
               <<" ", "|", " ">>)

GrammarToString(g) ==
  LET others == SelectSeq(g.productions, LAMBDA p : p.head # g.startSymbol)
  IN Join((IF MapHas(g.productions, g.startSymbol)
           THEN <<FormatProduction(g.startSymbol, MapGet(g.productions, g.startSymbol))>>
           ELSE <<>>)
          \o [i \in 1..Len(others) |-> FormatProduction(others[i].head, others[i].bodies)],
          <<"\n">>)

(***************************************************************************)
(* computeFirstOfString (types.ts 137-167)                                 *)
(***************************************************************************)
RECURSIVE FirstOfStringFrom(_, _, _, _)
FirstOfStringFrom(symbols, i, fst, res) ==
  IF i > Len(symbols) THEN res
  ELSE LET sym == symbols[i]
       IN IF sym.type = "epsilon" THEN res \cup {EpsilonValue}
          ELSE IF sym.type = "terminal" THEN res \cup {sym.value}
          ELSE IF sym.value \notin DOMAIN fst THEN res \cup {sym.value}
          ELSE LET symFirst == fst[sym.value]
                   res1 == res \cup (symFirst \ {EpsilonValue})
               IN IF EpsilonValue \notin symFirst THEN res1
                  ELSE FirstOfStringFrom(symbols, i + 1, fst,
                         IF i = Len(symbols) THEN res1 \cup {EpsilonValue} ELSE res1)

ComputeFirstOfString(symbols, fst) ==
  IF Len(symbols) = 0 THEN {EpsilonValue}
  ELSE FirstOfStringFrom(symbols, 1, fst, {})

(***************************************************************************)
(* computeFirstFollow (types.ts 67-135)                                    *)
(***************************************************************************)
\* the (head, body) pairs in the order the two nested for-loops visit them
Rules(prods) ==
  Concat([i \in 1..Len(prods) |->
            [j \in 1..Len(prods[i].bodies) |->
               [head |-> prods[i].head, body |-> prods[i].bodies[j]]]])

\* "Initialize" (types.ts 71-78)
InitialFirst(g) ==
  [n \in Range(g.nonTerminals) \cup Range(g.terminals) |->
     IF n \in Range(g.terminals) THEN {n} ELSE {}]
InitialFollow(g) == [n \in Range(g.nonTerminals) |-> {}]

\* a FIRST iteration that adds to the sets and never raises `changed`
RECURSIVE FirstPassNoFlag(_, _, _)
FirstPassNoFlag(rules, fst, chg) ==
  IF rules = <<>> THEN [first |-> fst, changed |-> chg]
  ELSE LET r == Head(rules)
           res == ComputeFirstOfString(r.body, fst)
       IN FirstPassNoFlag(Tail(rules), [fst EXCEPT ![r.head] = @ \cup res], chg)

\* one iteration of the FIRST while loop: the body of `while (changed)`
\* (types.ts 83-95), sets updated in place
RECURSIVE FirstPass(_, _, _)
FirstPass(rules, fst, chg) ==
  IF rules = <<>> THEN [first |-> fst, changed |-> chg]
  ELSE LET r == Head(rules)
           res == ComputeFirstOfString(r.body, fst)
       IN FirstPass(Tail(rules),
                    [fst EXCEPT ![r.head] = @ \cup res],
                    chg \/ ~(res \subseteq fst[r.head]))

\* the body of the loop over the positions of one body (types.ts 105-129)
RECURSIVE FollowBody(_, _, _, _, _)
FollowBody(r, i, fst, fol, chg) ==
  IF i > Len(r.body) THEN [follow |-> fol, changed |-> chg]
  ELSE LET sym == r.body[i]
       IN IF sym.type # "nonterminal" THEN FollowBody(r, i + 1, fst, fol, chg)
          ELSE LET rest == SubSeq(r.body, i + 1, Len(r.body))
                   firstOfRest == ComputeFirstOfString(rest, fst)
                   add1 == firstOfRest \ {EpsilonValue}
                   fol1 == [fol EXCEPT ![sym.value] = @ \cup add1]
                   chg1 == chg \/ ~(add1 \subseteq fol[sym.value])
                   absorb == EpsilonValue \in firstOfRest \/ Len(rest) = 0
                   fol2 == IF absorb
                           THEN [fol1 EXCEPT ![sym.value] = @ \cup fol1[r.head]]
                           ELSE fol1
                   chg2 == chg1 \/ (absorb /\ ~(fol1[r.head] \subseteq fol1[sym.value]))
               IN FollowBody(r, i + 1, fst, fol2, chg2)

\* one iteration of the FOLLOW while loop (types.ts 102-131)
RECURSIVE FollowPass(_, _, _, _)
FollowPass(rules, fst, fol, chg) ==
  IF rules = <<>> THEN [follow |-> fol, changed |-> chg]
  ELSE LET done == FollowBody(Head(rules), 1, fst, fol, chg)
       IN FollowPass(Tail(rules), fst, done.follow, done.changed)

\* follow.get(grammar.startSymbol)!.add('$') (types.ts 99)
SeedFollow(g, fol) == [fol EXCEPT ![g.startSymbol] = @ \cup {EndMarker}]

\* the two while loops run to their exit
RECURSIVE FirstLoop(_, _)
FirstLoop(rules, fst) ==
  LET pass == FirstPass(rules, fst, FALSE)
  IN IF pass.changed THEN FirstLoop(rules, pass.first) ELSE pass.first

RECURSIVE FollowLoop(_, _, _)
FollowLoop(rules, fst, fol) ==
  LET pass == FollowPass(rules, fst, fol, FALSE)
  IN IF pass.changed THEN FollowLoop(rules, fst, pass.follow) ELSE pass.follow

ComputeFirstFollow(g) ==
  LET fst == FirstLoop(Rules(g.productions), InitialFirst(g))
  IN [first |-> fst,
      follow |-> FollowLoop(Rules(g.productions), fst, SeedFollow(g, InitialFollow(g)))]

(***************************************************************************)
(* checkLL1Conflicts (types.ts 169-201).  A conflict message is kept as    *)
(* the values it is formatted from: kind, head, the 1-based alternative    *)
(* numbers it names and the set of symbols it lists.                       *)
(***************************************************************************)
Conflict(kind, head, alts, on) == [kind |-> kind, head |-> head, alts |-> alts, on |-> on]

\* the body of the inner loop for the pair (i, j), 1-based
PairConflicts(head, bodies, i, j, ff) ==
  LET firstI == ComputeFirstOfString(bodies[i], ff.first)
      firstJ == ComputeFirstOfString(bodies[j], ff.first)
      intersection == {x \in firstI : x \in firstJ /\ x # EpsilonValue}
      headFollow == IF head \in DOMAIN ff.follow THEN ff.follow[head] ELSE {}
      fIntersect == {x \in firstJ : x \in headFollow}
  IN (IF intersection # {}
      THEN <<Conflict("FIRST/FIRST", head, <<i, j>>, intersection)>> ELSE <<>>)
     \o (IF EpsilonValue \in firstI /\ fIntersect # {}
         THEN <<Conflict("FIRST/FOLLOW", head, <<j>>, fIntersect)>> ELSE <<>>)

\* the pairs (i, j), i < j, in the order of the two nested loops
RECURSIVE Pairs(_, _, _)
Pairs(n, i, j) ==
  IF i > n THEN <<>>
  ELSE IF j > n THEN Pairs(n, i + 1, i + 2)
  ELSE <<<<i, j>>>> \o Pairs(n, i, j + 1)

HeadConflicts(head, bodies, ff) ==
  LET ps == Pairs(Len(bodies), 1, 2)
  IN Concat([k \in 1..Len(ps) |-> PairConflicts(head, bodies, ps[k][1], ps[k][2], ff)])

CheckLL1Conflicts(g, ff) ==
  Concat([h \in 1..Len(g.productions) |->
            HeadConflicts(g.productions[h].head, g.productions[h].bodies, ff)])

(***************************************************************************)
(* detectAmbiguity and its checks (parser.ts 142-293).  A reason keeps its *)
(* type, severity and involvedRules; the prose of the description is left  *)
(* out, except for an LL(1) conflict, whose description is the conflict.   *)
(***************************************************************************)
Reason(type, severity, rules, about) ==
  [type |-> type, severity |-> severity, involvedRules |-> rules, description |-> about]

\* `${head} -> ${body.map(s => s.value).join(' ')}`
FormatRule(head, body) ==
  head \o <<" ", "-", ">", " ">> \o Join([j \in 1..Len(body) |-> body[j].value], <<" ">>)

AllRules(head, bodies) == [i \in 1..Len(bodies) |-> FormatRule(head, bodies[i])]

IsHead(sym, head) == sym.type = "nonterminal" /\ sym.value = head

\* an expression check with the length test off by one (body.length >= 2)
ExpressionReasonsShort(head, bodies) ==
  Concat([i \in 1..Len(bodies) |->
    LET body == bodies[i]
    IN IF Len(body) >= 2 /\ IsHead(body[1], head) /\ IsHead(body[Len(body)], head)
       THEN <<Reason("Expression Ambiguity", "high", <<FormatRule(head, body)>>,
                     [head |-> head, ops |-> SubSeq(body, 2, Len(body) - 1)])>>
       ELSE <<>>])

\* checkExpressionAmbiguity (parser.ts 193-215)
ExpressionReasons(head, bodies) ==
  Concat([i \in 1..Len(bodies) |->
    LET body == bodies[i]
    IN IF Len(body) >= 3 /\ IsHead(body[1], head) /\ IsHead(body[Len(body)], head)
       THEN <<Reason("Expression Ambiguity", "high", <<FormatRule(head, body)>>,
                     [head |-> head, ops |-> SubSeq(body, 2, Len(body) - 1)])>>
       ELSE <<>>])

CheckExpressionAmbiguity(g) ==
  Concat([h \in 1..Len(g.productions) |->
            ExpressionReasons(g.productions[h].head, g.productions[h].bodies)])

\* checkDanglingElse (parser.ts 217-237)
HasValue(body, v) == \E k \in 1..Len(body) : body[k].value = v
KwIf == <<"i", "f">>
KwElse == <<"e", "l", "s", "e">>

DanglingReasons(head, bodies) ==
  LET hasIfThenElse == \E i \in 1..Len(bodies) :
                          HasValue(bodies[i], KwIf) /\ HasValue(bodies[i], KwElse)
      hasIfThen == \E i \in 1..Len(bodies) :
                      HasValue(bodies[i], KwIf) /\ ~HasValue(bodies[i], KwElse)
  IN IF hasIfThenElse /\ hasIfThen
     THEN <<Reason("Dangling Else", "high", AllRules(head, bodies), [head |-> head])>>
     ELSE <<>>

CheckDanglingElse(g) ==
  Concat([h \in 1..Len(g.productions) |->
            DanglingReasons(g.productions[h].head, g.productions[h].bodies)])

\* checkPrefixConflicts (parser.ts 239-265)
Min(a, b) == IF a <= b THEN a ELSE b

PrefixLen(x, y) ==
  LET minLen == Min(Len(x), Len(y))
      agree == {k \in 0..minLen : \A m \in 1..k : x[m] = y[m]}
  IN CHOOSE k \in agree : \A m \in agree : m <= k

PrefixPair(head, bodies, i, j) ==
  LET minLen == Min(Len(bodies[i]), Len(bodies[j]))
      prefixLen == PrefixLen(bodies[i], bodies[j])
  IN IF prefixLen > 0 /\ (Len(bodies[i]) # Len(bodies[j]) \/ prefixLen < minLen)
     THEN <<Reason("Prefix Conflict", "low",
                   <<FormatRule(head, bodies[i]), FormatRule(head, bodies[j])>>,
                   [head |-> head, prefixLen |-> prefixLen])>>
     ELSE <<>>

PrefixReasons(head, bodies) ==
  LET ps == Pairs(Len(bodies), 1, 2)
  IN Concat([k \in 1..Len(ps) |-> PrefixPair(head, bodies, ps[k][1], ps[k][2])])

CheckPrefixConflicts(g) ==
  Concat([h \in 1..Len(g.productions) |->
            PrefixReasons(g.productions[h].head, g.productions[h].bodies)])

\* checkBothSideRecursion (parser.ts 267-293)
MixedReasons(head, bodies) ==
  LET hasRightRec == \E k \in 1..Len(bodies) :
                        /\ Len(bodies[k]) >= 2
                        /\ IsHead(bodies[k][Len(bodies[k])], head)
                        /\ bodies[k][1].type # "nonterminal"
  IN Concat([i \in 1..Len(bodies) |->
       LET body == bodies[i]
       IN IF /\ Len(body) >= 2
             /\ IsHead(body[1], head)
             /\ ~IsHead(body[Len(body)], head)
             /\ hasRightRec
          THEN <<Reason("Mixed Recursion", "medium", AllRules(head, bodies),
                        [head |-> head])>>
          ELSE <<>>])

CheckBothSideRecursion(g) ==
  Concat([h \in 1..Len(g.productions) |->
            MixedReasons(g.productions[h].head, g.productions[h].bodies)])

\* "4. Check FIRST/FOLLOW conflicts" (parser.ts 154-164)
ConflictReasons(g) ==
  LET ll1Conflicts == CheckLL1Conflicts(g, ComputeFirstFollow(g))
  IN [k \in 1..Len(ll1Conflicts) |->
        Reason("FIRST/FOLLOW Conflict", "medium", <<>>, ll1Conflicts[k])]

\* a status that calls any reason at all an ambiguity
StatusOfAnyReason(reasons) ==
  IF Len(reasons) > 0 THEN "ambiguous" ELSE "no-ambiguity-detected"

\* "Determine status" (parser.ts 169-188)
StatusOf(reasons) ==
  IF \E k \in 1..Len(reasons) : reasons[k].severity = "high" THEN "ambiguous"
  ELSE IF Len(reasons) > 0 THEN "possibly-ambiguous"
  ELSE "no-ambiguity-detected"

DetectAmbiguity(g) ==
  LET reasons == CheckExpressionAmbiguity(g) \o CheckDanglingElse(g)
                 \o CheckPrefixConflicts(g) \o ConflictReasons(g)
                 \o CheckBothSideRecursion(g)
  IN [status |-> StatusOf(reasons), reasons |-> reasons]

(***************************************************************************)
(* The transformation passes (src/unnamed/part_000).  Each pass copies the *)
(* productions map and the set of non-terminals, walks the heads of the    *)
(* grammar it was given in map order and writes into the copies.           *)
(***************************************************************************)
\* the state a pass carries along its loop over the heads
PassStart(g) ==
  [productions |-> g.productions, nonTerminals |-> g.nonTerminals,
   changed |-> FALSE, counter |-> 1]

\* a result that keeps the set of non-terminals of the grammar the pass was given
PassResultOldNames(g, acc) ==
  [grammar |-> [g EXCEPT !.productions = acc.productions], changed |-> acc.changed]

\* { grammar: { ...grammar, productions: newProductions, nonTerminals: newNonTerminals }, changed }
PassResult(g, acc) ==
  [grammar |-> [g EXCEPT !.productions = acc.productions,
                         !.nonTerminals = acc.nonTerminals],
   changed |-> acc.changed]

\* applyOperatorPrecedence (part_000 80-149)
HighOps == {<<"*">>, <<"/">>, <<"%">>}

IsOpBody(head, body) ==
  /\ Len(body) = 3
  /\ IsHead(body[1], head)
  /\ IsHead(body[3], head)
  /\ body[2].type = "terminal"

Retarget(body, head, name) ==
  [k \in 1..Len(body) |->
     IF IsHead(body[k], head) THEN [body[k] EXCEPT !.value = name] ELSE body[k]]

PrecedenceHead(head, bodies, acc) ==
  LET opPatterns == SelectSeq(bodies, LAMBDA b : IsOpBody(head, b))
      nonOpBodies == SelectSeq(bodies, LAMBDA b : ~IsOpBody(head, b))
      highPrec == SelectSeq(opPatterns, LAMBDA b : b[2].value \in HighOps)
      lowPrec == SelectSeq(opPatterns, LAMBDA b : b[2].value \notin HighOps)
      termName == head \o <<"T">>
      factName == head \o <<"F">>
      eBodies == [k \in 1..Len(lowPrec) |->
                    <<NonTerminal(head), Terminal(lowPrec[k][2].value),
                      NonTerminal(termName)>>]
                 \o <<<<NonTerminal(termName)>>>>
      tBodies == [k \in 1..Len(highPrec) |->
                    <<NonTerminal(termName), Terminal(highPrec[k][2].value),
                      NonTerminal(factName)>>]
                 \o <<<<NonTerminal(factName)>>>>
      mapped == [k \in 1..Len(nonOpBodies) |-> Retarget(nonOpBodies[k], head, factName)]
      fBodies == IF Len(mapped) = 0 THEN <<<<Terminal(<<"i", "d">>)>>>> ELSE mapped
  IN IF Len(opPatterns) >= 2
     THEN IF Len(highPrec) > 0 /\ Len(lowPrec) > 0
          THEN [acc EXCEPT
                  !.changed = TRUE,
                  !.nonTerminals = SetAdd(SetAdd(@, termName), factName),
                  !.productions = MapSet(MapSet(MapSet(@, head, eBodies),
                                                termName, tBodies),
                                         factName, fBodies)]
          ELSE [acc EXCEPT !.changed = TRUE]
     ELSE acc

\* for (const [head, bodies] of grammar.productions) { ... } (part_000 85-143)
RECURSIVE PrecedenceLoop(_, _, _)
PrecedenceLoop(prods, i, acc) ==
  IF i > Len(prods) THEN acc
  ELSE PrecedenceLoop(prods, i + 1, PrecedenceHead(prods[i].head, prods[i].bodies, acc))

ApplyOperatorPrecedence(g) == PassResult(g, PrecedenceLoop(g.productions, 1, PassStart(g)))

\* eliminateLeftRecursion (part_000 151-195)
StartsWithHead(head, body) == Len(body) > 0 /\ IsHead(body[1], head)

LeftRecursionHead(head, bodies, acc) ==
  LET recBodies == SelectSeq(bodies, LAMBDA b : StartsWithHead(head, b))
      leftRec == [k \in 1..Len(recBodies) |-> Tail(recBodies[k])]
      nonLeftRec == SelectSeq(bodies, LAMBDA b : ~StartsWithHead(head, b))
      primeName == head \o <<"'">>
      newBodies == [k \in 1..Len(nonLeftRec) |->
                      Append(nonLeftRec[k], NonTerminal(primeName))]
      primeBodies == [k \in 1..Len(leftRec) |->
                        Append(leftRec[k], NonTerminal(primeName))]
                     \o <<<<Epsilon>>>>
  IN IF Len(leftRec) > 0 /\ Len(nonLeftRec) > 0
     THEN [acc EXCEPT
             !.changed = TRUE,
             !.nonTerminals = SetAdd(@, primeName),
             !.productions = MapSet(MapSet(@, head, newBodies), primeName, primeBodies)]
     ELSE acc

\* for (const [head, bodies] of grammar.productions) { ... } (part_000 156-189)
RECURSIVE LeftRecursionLoop(_, _, _)
LeftRecursionLoop(prods, i, acc) ==
  IF i > Len(prods) THEN acc
  ELSE LeftRecursionLoop(prods, i + 1, LeftRecursionHead(prods[i].head, prods[i].bodies, acc))

EliminateLeftRecursion(g) == PassResult(g, LeftRecursionLoop(g.productions, 1, PassStart(g)))

\* leftFactor (part_000 197-260)
\* String(counter): the decimal digits of a positive integer
DigitChar(d) ==
  CASE d = 0 -> "0" [] d = 1 -> "1" [] d = 2 -> "2" [] d = 3 -> "3" [] d = 4 -> "4"
    [] d = 5 -> "5" [] d = 6 -> "6" [] d = 7 -> "7" [] d = 8 -> "8" [] d = 9 -> "9"

RECURSIVE Decimal(_)
Decimal(n) == IF n < 10 THEN <<DigitChar(n)>> ELSE Append(Decimal(n \div 10), DigitChar(n % 10))

\* `${body[0].type}:${body[0].value}`
GroupKey(body) == <<body[1].type, body[1].value>>

\* "Group by first symbol": a Map from key to bodies, in order of first insertion
RECURSIVE GroupBodies(_, _, _)
GroupBodies(bodies, i, groups) ==
  IF i > Len(bodies) THEN groups
  ELSE IF Len(bodies[i]) = 0 THEN GroupBodies(bodies, i + 1, groups)
  ELSE LET key == GroupKey(bodies[i])
           at == {k \in 1..Len(groups) : groups[k].key = key}
       IN GroupBodies(bodies, i + 1,
            IF at = {}
            THEN Append(groups, [key |-> key, members |-> <<bodies[i]>>])
            ELSE [k \in 1..Len(groups) |->
                    IF k \in at
                    THEN [groups[k] EXCEPT !.members = Append(@, bodies[i])]
                    ELSE groups[k]])

MinLength(group) == CHOOSE n \in {Len(group[k]) : k \in 1..Len(group)} :
                      \A k \in 1..Len(group) : n <= Len(group[k])

\* "Find common prefix length"
AgreeAt(group, k) == \A m \in 1..Len(group) : group[m][k] = group[1][k]

CommonPrefixLen(group) ==
  LET agree == {n \in 0..MinLength(group) : \A k \in 1..n : AgreeAt(group, k)}
  IN CHOOSE n \in agree : \A m \in agree : m <= n

\* the loop over the groups of one head; st adds the field newBodies to the pass state
RECURSIVE FactorGroups(_, _, _, _)
FactorGroups(head, groups, i, st) ==
  IF i > Len(groups) THEN st
  ELSE LET group == groups[i].members
       IN IF Len(group) = 1
          THEN FactorGroups(head, groups, i + 1,
                            [st EXCEPT !.newBodies = Append(@, group[1])])
          ELSE LET prefixLen == CommonPrefixLen(group)
                   newNT == head \o Decimal(st.counter)
                   prefix == SubSeq(group[1], 1, prefixLen)
                   suffixes == [m \in 1..Len(group) |->
                                  IF Len(group[m]) > prefixLen
                                  THEN SubSeq(group[m], prefixLen + 1, Len(group[m]))
                                  ELSE <<Epsilon>>]
               IN FactorGroups(head, groups, i + 1,
                    [st EXCEPT
                       !.counter = @ + 1,
                       !.nonTerminals = SetAdd(@, newNT),
                       !.newBodies = Append(@, Append(prefix, NonTerminal(newNT))),
                       !.productions = MapSet(@, newNT, suffixes)])

LeftFactorHead(head, bodies, acc) ==
  LET groups == GroupBodies(bodies, 1, <<>>)
      needsFactoring == \E k \in 1..Len(groups) : Len(groups[k].members) > 1
      st == FactorGroups(head, groups, 1,
              [productions |-> acc.productions, nonTerminals |-> acc.nonTerminals,
               counter |-> acc.counter, newBodies |-> <<>>])
  IN IF Len(bodies) < 2 \/ ~needsFactoring THEN acc
     ELSE [productions |-> MapSet(st.productions, head, st.newBodies),
           nonTerminals |-> st.nonTerminals,
           changed |-> TRUE,
           counter |-> st.counter]

\* for (const [head, bodies] of grammar.productions) { ... } (part_000 203-254)
RECURSIVE LeftFactorLoop(_, _, _)
LeftFactorLoop(prods, i, acc) ==
  IF i > Len(prods) THEN acc
  ELSE LeftFactorLoop(prods, i + 1, LeftFactorHead(prods[i].head, prods[i].bodies, acc))

LeftFactor(g) == PassResult(g, LeftFactorLoop(g.productions, 1, PassStart(g)))

\* resolveDanglingElse (part_000 262-331)
KwCond == <<"c", "o", "n", "d">>
KwThen == <<"t", "h", "e", "n">>

HasIfThenElse(bodies) ==
  \E k \in 1..Len(bodies) : HasValue(bodies[k], KwIf) /\ HasValue(bodies[k], KwElse)

HasIfThen(bodies) ==
  \E k \in 1..Len(bodies) : HasValue(bodies[k], KwIf) /\ ~HasValue(bodies[k], KwElse)

DanglingElseHead(head, bodies, acc) ==
  LET matchedNT == head \o <<"M">>
      unmatchedNT == head \o <<"U">>
      baseBodies == SelectSeq(bodies, LAMBDA b : ~HasValue(b, KwIf))
      matchedBodies ==
        Append(baseBodies,
               <<Terminal(KwIf), Terminal(KwCond), Terminal(KwThen), NonTerminal(matchedNT),
                 Terminal(KwElse), NonTerminal(matchedNT)>>)
      unmatchedBodies ==
        << <<Terminal(KwIf), Terminal(KwCond), Terminal(KwThen), NonTerminal(head)>>,
           <<Terminal(KwIf), Terminal(KwCond), Terminal(KwThen), NonTerminal(matchedNT),
             Terminal(KwElse), NonTerminal(unmatchedNT)>> >>
  IN IF HasIfThenElse(bodies) /\ HasIfThen(bodies)
     THEN [acc EXCEPT
             !.changed = TRUE,
             !.nonTerminals = SetAdd(SetAdd(@, matchedNT), unmatchedNT),
             !.productions =
                MapSet(MapSet(MapSet(@, head, <<<<NonTerminal(matchedNT)>>,
                                               <<NonTerminal(unmatchedNT)>>>>),
                              matchedNT, matchedBodies),
                       unmatchedNT, unmatchedBodies)]
     ELSE acc

\* for (const [head, bodies] of grammar.productions) { ... } (part_000 267-325)
RECURSIVE DanglingElseLoop(_, _, _)
DanglingElseLoop(prods, i, acc) ==
  IF i > Len(prods) THEN acc
  ELSE DanglingElseLoop(prods, i + 1, DanglingElseHead(prods[i].head, prods[i].bodies, acc))

ResolveDanglingElse(g) == PassResult(g, DanglingElseLoop(g.productions, 1, PassStart(g)))

(***************************************************************************)
(* Parse trees (parsetree.ts 3-112, ParseTreeView.tsx 157-220).  A node is *)
(* a record {id, label, isTerminal, children}.  The functions that create  *)
(* nodes take the value of the id counter and return the value they leave  *)
(* with what they built, in the order the code creates the nodes.          *)
(***************************************************************************)
\* `node_${nodeCounter++}`
NodeId(n) == <<"n", "o", "d", "e", "_">> \o Decimal(n)

\* createNode (parsetree.ts 5-7), for the counter value n
CreateNode(label, isTerminal, n) ==
  [id |-> NodeId(n), label |-> label, isTerminal |-> isTerminal, children |-> <<>>]

\* buildTreeFromBody (parsetree.ts 94-112); MapBody is the body.map from symbol i on
RECURSIVE BuildTreeFromBody(_, _, _, _, _), MapBody(_, _, _, _, _, _)
BuildTreeFromBody(g, body, depth, maxDepth, n) ==
  IF depth > maxDepth THEN [nodes |-> <<>>, counter |-> n]
  ELSE MapBody(g, body, 1, depth, maxDepth, n)

MapBody(g, body, i, depth, maxDepth, n) ==
  IF i > Len(body) THEN [nodes |-> <<>>, counter |-> n]
  ELSE LET sym == body[i]
           bodies == MapGet(g.productions, sym.value)
           sub == IF sym.type = "nonterminal" /\ MapHas(g.productions, sym.value)
                     /\ Len(bodies) > 0 /\ depth < maxDepth
                  THEN BuildTreeFromBody(g, bodies[1], depth + 1, maxDepth, n + 1)
                  ELSE [nodes |-> <<>>, counter |-> n + 1]
           node == IF sym.type = "epsilon" THEN CreateNode(EpsilonValue, TRUE, n)
                   ELSE IF sym.type = "terminal" THEN CreateNode(sym.value, TRUE, n)
                   ELSE [CreateNode(sym.value, FALSE, n) EXCEPT !.children = sub.nodes]
           rest == MapBody(g, body, i + 1, depth, maxDepth, sub.counter)
       IN [nodes |-> <<node>> \o rest.nodes, counter |-> rest.counter]

\* a loop that lets the counter run on from one tree to the next
KeepCounter(n) == n

\* nodeCounter = 0 before each tree (parsetree.ts 85)
ResetCounter(n) == 0

\* one turn of the loop over the start bodies (parsetree.ts 84-88), entered
\* with the counter at n: the tree it pushes and the counter it leaves
TreeOfBody(g, body, maxDepth, n) ==
  LET root == CreateNode(g.startSymbol, FALSE, ResetCounter(n))
      sub == BuildTreeFromBody(g, body, 0, maxDepth, ResetCounter(n) + 1)
  IN [tree |-> [root EXCEPT !.children = sub.nodes], counter |-> sub.counter]

\* the loop of generateParseTrees (parsetree.ts 83-89) from the state st
RECURSIVE TreeLoop(_, _, _, _, _)
TreeLoop(g, startBodies, maxTrees, maxDepth, st) ==
  IF Len(st.trees) >= Len(startBodies) \/ Len(st.trees) >= maxTrees THEN st
  ELSE LET t == TreeOfBody(g, startBodies[Len(st.trees) + 1], maxDepth, st.counter)
       IN TreeLoop(g, startBodies, maxTrees, maxDepth,
                   [trees |-> Append(st.trees, t.tree), counter |-> t.counter])

\* generateParseTrees (parsetree.ts 9-92): the trees it returns and the value
\* it leaves in the counter of the module.  The inner function derive is
\* never called.
GenerateParseTrees(g, maxTrees, maxDepth) ==
  IF ~MapHas(g.productions, g.startSymbol) THEN [trees |-> <<>>, counter |-> 0]
  ELSE TreeLoop(g, MapGet(g.productions, g.startSymbol), maxTrees, maxDepth,
                [trees |-> <<>>, counter |-> 0])

\* `n${nextId()}`
DisplayId(n) == <<"n">> \o Decimal(n)

\* [...bodies].sort((a, b) => a.length - b.length)[0]: the sort is stable
ShortestBody(bodies) ==
  bodies[CHOOSE i \in 1..Len(bodies) :
           /\ \A j \in 1..Len(bodies) : Len(bodies[i]) <= Len(bodies[j])
           /\ \A j \in 1..(i - 1) : Len(bodies[j]) > Len(bodies[i])]

\* buildSubtree (ParseTreeView.tsx 190-220); MapSubtrees is body.map(s => buildSubtree(...))
RECURSIVE BuildSubtree(_, _, _, _, _), MapSubtrees(_, _, _, _, _, _)
BuildSubtree(g, sym, depth, maxDepth, n) ==
  LET leaf(label, isTerminal) ==
        [id |-> DisplayId(n), label |-> label, isTerminal |-> isTerminal,
         children |-> <<>>]
      bodies == MapGet(g.productions, sym.value)
  IN IF sym.type = "epsilon" THEN [node |-> leaf(EpsilonValue, TRUE), counter |-> n + 1]
     ELSE IF sym.type = "terminal" THEN [node |-> leaf(sym.value, TRUE), counter |-> n + 1]
     ELSE IF depth >= maxDepth THEN [node |-> leaf(sym.value, FALSE), counter |-> n + 1]
     ELSE IF MapHas(g.productions, sym.value) /\ Len(bodies) > 0
     THEN LET sub == MapSubtrees(g, ShortestBody(bodies), 1, depth + 1, maxDepth, n + 1)
          IN [node |-> [leaf(sym.value, FALSE) EXCEPT !.children = sub.nodes],
              counter |-> sub.counter]
     ELSE [node |-> leaf(sym.value, FALSE), counter |-> n + 1]

MapSubtrees(g, body, i, depth, maxDepth, n) ==
  IF i > Len(body) THEN [nodes |-> <<>>, counter |-> n]
  ELSE LET one == BuildSubtree(g, body[i], depth, maxDepth, n)
           rest == MapSubtrees(g, body, i + 1, depth, maxDepth, one.counter)
       IN [nodes |-> <<one.node>> \o rest.nodes, counter |-> rest.counter]

\* buildOneTree (ParseTreeView.tsx 172-188)
BuildOneTree(g, rootLabel, body, maxDepth, n) ==
  LET sub == MapSubtrees(g, body, 1, 1, maxDepth, n + 1)
  IN [tree |-> [id |-> DisplayId(n), label |-> rootLabel, isTerminal |-> FALSE,
                children |-> sub.nodes],
      counter |-> sub.counter]

\* the loop of buildDisplayTrees over the start bodies (ParseTreeView.tsx 164-167)
RECURSIVE DisplayLoop(_, _, _, _, _)
DisplayLoop(g, startBodies, i, maxDepth, st) ==
  IF i > Len(startBodies) THEN st
  ELSE LET t == BuildOneTree(g, g.startSymbol, startBodies[i], maxDepth, st.counter)
       IN DisplayLoop(g, startBodies, i + 1, maxDepth,
                      [trees |-> Append(st.trees, t.tree), counter |-> t.counter])

\* buildDisplayTrees (ParseTreeView.tsx 157-170); idCounter is a local of the call
BuildDisplayTrees(g, maxDepth) ==
  LET startBodies == MapGet(g.productions, g.startSymbol)
  IN IF ~MapHas(g.productions, g.startSymbol) \/ Len(startBodies) = 0 THEN <<>>
     ELSE DisplayLoop(g, startBodies, 1, maxDepth, [trees |-> <<>>, counter |-> 0]).trees

(***************************************************************************)
(* generateSampleStrings (parsetree.ts 114-158).  A sample is a text: the  *)
(* terminal values joined by one space.                                    *)
(***************************************************************************)
\* first.value + (s ? ' ' + s : '')
Prepend(value, s) == value \o (IF s # <<>> THEN <<" ">> \o s ELSE <<>>)

\* a filter that drops nothing
KeepAll(ss, keep) == ss

\* Array.filter
RECURSIVE Filter(_, _)
Filter(ss, keep) ==
  IF ss = <<>> THEN <<>>
  ELSE (IF Head(ss) \in keep THEN <<Head(ss)>> ELSE <<>>) \o Filter(Tail(ss), keep)

\* generate (parsetree.ts 117-144); GenerateBodies is its loop over the bodies
RECURSIVE Generate(_, _, _, _, _), GenerateBodies(_, _, _, _, _, _, _, _)
Generate(g, symbols, depth, maxLength, maxSamples) ==
  IF depth > maxLength * 2 THEN <<>>
  ELSE IF symbols = <<>> THEN << <<>> >>
  ELSE LET fst == symbols[1]
           rest == Tail(symbols)
       IN IF fst.type = "epsilon" THEN Generate(g, rest, depth, maxLength, maxSamples)
          ELSE IF fst.type = "terminal"
          THEN LET suffixes == Generate(g, rest, depth, maxLength, maxSamples)
                   made == [k \in 1..Len(suffixes) |-> Prepend(fst.value, suffixes[k])]
               IN Filter(made, {s \in Range(made) : Len(SplitOn(s, " ")) <= maxLength})
          ELSE IF ~MapHas(g.productions, fst.value) THEN <<>>
          ELSE GenerateBodies(g, MapGet(g.productions, fst.value), 1, rest, depth,
                              <<>>, maxLength, maxSamples)

GenerateBodies(g, bodies, i, rest, depth, results, maxLength, maxSamples) ==
  IF i > Len(bodies) \/ Len(results) >= maxSamples THEN results
  ELSE GenerateBodies(g, bodies, i + 1, rest, depth,
                      results \o Generate(g, bodies[i] \o rest, depth + 1,
                                          maxLength, maxSamples),
                      maxLength, maxSamples)

\* the inner loop over the strings of one start body (parsetree.ts 151-154)
RECURSIVE AddSamples(_, _, _, _)
AddSamples(strs, k, acc, maxSamples) ==
  IF k > Len(strs) \/ Len(acc) >= maxSamples THEN acc
  ELSE AddSamples(strs, k + 1,
                  IF Trim(strs[k]) # <<>> THEN SetAdd(acc, Trim(strs[k])) ELSE acc,
                  maxSamples)

\* the loop over the start bodies (parsetree.ts 149-155)
RECURSIVE SampleLoop(_, _, _, _, _, _)
SampleLoop(g, startBodies, i, acc, maxLength, maxSamples) ==
  IF i > Len(startBodies) THEN acc
  ELSE SampleLoop(g, startBodies, i + 1,
                  AddSamples(Generate(g, startBodies[i], 0, maxLength, maxSamples), 1,
                             acc, maxSamples),
                  maxLength, maxSamples)

GenerateSampleStrings(g, maxLength, maxSamples) ==
  IF ~MapHas(g.productions, g.startSymbol) THEN <<>>
  ELSE SampleLoop(g, MapGet(g.productions, g.startSymbol), 1, <<>>, maxLength, maxSamples)

(***************************************************************************)
(* Input texts.  A text is typed as a sequence of items (a head with its   *)
(* arrow, a token, an alternative bar, a line break) in one spacing style. *)
(***************************************************************************)
MaxItems == 4

Tok(v) == [k |-> "tok", v |-> v, a |-> <<>>]
Bar == [k |-> "bar", v |-> <<>>, a |-> <<>>]
Nl == [k |-> "nl", v |-> <<>>, a |-> <<>>]
HeadItem(v, arrow) == [k |-> "head", v |-> v, a |-> arrow]
AsciiArrow == <<"-", ">">>
UnicodeArrow == <<"→">>
H(v) == HeadItem(v, AsciiArrow)

Styles ==
  [loose   |-> [arrowL |-> <<" ", " ">>, arrowR |-> <<"\t">>, barL |-> <<"\t">>,
                barR |-> <<" ">>, sep |-> <<" ", "\t">>],
   compact |-> [arrowL |-> <<>>, arrowR |-> <<>>, barL |-> <<>>,
                barR |-> <<>>, sep |-> <<" ">>]]

RenderItem(its, i, st) ==
  LET it == its[i]
  IN CASE it.k = "tok"  -> (IF i > 1 /\ its[i-1].k = "tok" THEN st.sep ELSE <<>>) \o it.v
       [] it.k = "bar"  -> st.barL \o <<"|">> \o st.barR
       [] it.k = "head" -> (IF i > 1 THEN <<"\n">> ELSE <<>>)
                           \o it.v \o st.arrowL \o it.a \o st.arrowR
       [] it.k = "nl"   -> <<"\n">>

Render(src) ==
  Concat([i \in 1..Len(src.items) |-> RenderItem(src.items, i, Styles[src.style])])

ItemAlphabet ==
  {Tok(<<"A">>), Tok(<<"a">>), Tok(<<"e","p","s">>), Bar, Nl,
   H(<<"S">>), H(<<"A">>), HeadItem(<<"S">>, UnicodeArrow)}


T1(c) == Tok(<<c>>)
ExampleItems ==
  { <<H(<<"S">>), T1("A"), T1("B")>>,
    <<H(<<"S">>), T1("A"), Bar, T1("B"), T1("A")>>,
    <<H(<<"s">>), T1("a")>>,
    <<H(<<"S">>), T1("a"), Bar, Bar, T1("b")>>,
    <<H(<<"E">>), T1("E"), T1("+"), T1("E"), Bar, Tok(<<"i","d">>)>>,
    <<HeadItem(<<"E">>, UnicodeArrow), T1("E"), T1("+"), T1("T"), Bar, T1("T"),
      HeadItem(<<"T">>, UnicodeArrow), Tok(<<"i","d">>)>>,
    <<H(<<"A">>), T1("a"), T1("A"), T1("b"), Bar, T1("ε")>>,
    <<H(<<"S">>), T1("A"), Bar, T1("a"),
      H(<<"A">>), Tok(<<"e","p","s","i","l","o","n">>), Bar, T1("a"), T1("S")>>,
    <<H(<<"S">>), T1("a"), H(<<"S">>), T1("b"), H(<<"A'">>), T1("S")>>,
    <<H(<<"A">>), T1("a"), Nl, Tok(<<"/","/">>), T1("c"), Nl, H(<<"S_1">>), T1("A")>>,
    <<H(<<"S">>), T1("a"), Tok(<<"-",">">>), T1("b"), Bar, Tok(<<"/","/">>)>>,
    <<H(<<"S">>), T1("A"), H(<<"B">>), T1("C"), T1("C"), T1("D")>> }

Sources ==
  {[items |-> its, style |-> st] :
     its \in UNION {SeqsOfLen(ItemAlphabet, n) : n \in 0..MaxItems} \cup ExampleItems,
     st \in {"loose", "compact"}}

(***************************************************************************)
(* Input grammars: every grammar a successful parseGrammar can return with *)
(* heads S (, A), symbols S, A, a, b, ε and at most MaxSymbols symbol      *)
(* occurrences, and the grammars parsed from the example texts.            *)
(***************************************************************************)
MaxSymbols == 3

\* the Grammar parseGrammar builds around a productions map (parser.ts 29-30, 52-63, 76-79)
MakeGrammar(prods) ==
  [startSymbol |-> prods[1].head,
   nonTerminals |-> AddSymbols(AllSymbols(prods), "nonterminal", Heads(prods)),
   terminals |-> AddSymbols(AllSymbols(prods), "terminal", <<>>),
   productions |-> prods]

SymbolPool ==
  {NonTerminal(<<"S">>), NonTerminal(<<"A">>), Terminal(<<"a">>), Terminal(<<"b">>), Epsilon}


\* the lists of non-empty bodies holding t symbols in all
RECURSIVE BodyLists(_)
BodyLists(t) ==
  IF t = 0 THEN {<<>>}
  ELSE UNION {{<<b>> \o rest : b \in SeqsOfLen(SymbolPool, n), rest \in BodyLists(t - n)} :
                n \in 1..t}

Entry(h, bodies) == [head |-> h, bodies |-> bodies]

AllDefined(prods) ==
  \A i \in 1..Len(prods) : \A j \in 1..Len(prods[i].bodies) :
     \A k \in 1..Len(prods[i].bodies[j]) :
        prods[i].bodies[j][k].type = "nonterminal"
          => MapHas(prods, prods[i].bodies[j][k].value)

SmallProductions ==
  LET one == {<<Entry(<<"S">>, bl)>> : bl \in UNION {BodyLists(t) : t \in 1..MaxSymbols}}
      two == UNION {UNION {{<<Entry(<<"S">>, b1), Entry(<<"A">>, b2)>> :
                              b1 \in BodyLists(t1), b2 \in BodyLists(t2)} :
                           t2 \in 1..(MaxSymbols - t1)} :
                    t1 \in 1..(MaxSymbols - 1)}
  IN {p \in one \cup two : AllDefined(p)}

W2(a, b) == Tok(<<a, b>>)
ExampleGrammarItems ==
  { \* E -> E + E | id
    <<H(<<"E">>), T1("E"), T1("+"), T1("E"), Bar, W2("i","d")>>,
    \* A -> a A b | ε
    <<H(<<"A">>), T1("a"), T1("A"), T1("b"), Bar, T1("ε")>>,
    \* E -> E + E | E * E | ( E ) | id
    <<H(<<"E">>), T1("E"), T1("+"), T1("E"), Bar, T1("E"), T1("*"), T1("E"), Bar,
      T1("("), T1("E"), T1(")"), Bar, W2("i","d")>>,
    \* S -> if cond then S else S | if cond then S | other
    <<H(<<"S">>), W2("i","f"), T1("c"), Tok(<<"t","h","e","n">>), T1("S"),
      Tok(<<"e","l","s","e">>), T1("S"), Bar,
      W2("i","f"), T1("c"), Tok(<<"t","h","e","n">>), T1("S"), Bar, T1("o")>>,
    \* E -> E + T | T ; T -> T * F | F ; F -> ( E ) | id
    <<H(<<"E">>), T1("E"), T1("+"), T1("T"), Bar, T1("T"),
      H(<<"T">>), T1("T"), T1("*"), T1("F"), Bar, T1("F"),
      H(<<"F">>), T1("("), T1("E"), T1(")"), Bar, W2("i","d")>>,
    \* S -> A a | b ; A -> S c | ε   (mutual recursion)
    <<H(<<"S">>), T1("A"), T1("a"), Bar, T1("b"),
      H(<<"A">>), T1("S"), T1("c"), Bar, T1("ε")>>,
    \* S -> A B | S S ; A -> ε | B ; B -> A A | ε   (everything nullable)
    <<H(<<"S">>), T1("A"), T1("B"), Bar, T1("S"), T1("S"),
      H(<<"A">>), T1("ε"), Bar, T1("B"),
      H(<<"B">>), T1("A"), T1("A"), Bar, T1("ε")>>,
    \* E -> E + a | a + E | a   (left and right recursion)
    <<H(<<"E">>), T1("E"), T1("+"), T1("a"), Bar, T1("a"), T1("+"), T1("E"), Bar, T1("a")>>,
    \* S -> A B c ; A -> a | ε ; B -> b | ε
    <<H(<<"S">>), T1("A"), T1("B"), T1("c"),
      H(<<"A">>), T1("a"), Bar, T1("ε"),
      H(<<"B">>), T1("b"), Bar, T1("ε")>>,
    \* S -> S a S b S | ε a | S
    <<H(<<"S">>), T1("S"), T1("a"), T1("S"), T1("b"), T1("S"), Bar,
      T1("ε"), T1("a"), Bar, T1("S")>>,
    \* S -> S a | A S ; A -> a   (the right-recursive body starts with A)
    <<H(<<"S">>), T1("S"), T1("a"), Bar, T1("A"), T1("S"),
      H(<<"A">>), T1("a")>> }

ExampleGrammars ==
  {ParseGrammar(Render([items |-> its, style |-> "loose"])).grammar[1] :
     its \in ExampleGrammarItems}

Grammars == {MakeGrammar(p) : p \in SmallProductions} \cup ExampleGrammars

(***************************************************************************)
(* The parser run: parseGrammar(input), then the round trip                *)
(* parseGrammar(grammarToString(G)) of a grammar it returned.              *)
(***************************************************************************)
NoResult == [grammar |-> Null, errors |-> <<>>]
NoGrammar == [startSymbol |-> <<>>, nonTerminals |-> <<>>, terminals |-> <<>>,
              productions |-> <<>>]
NoAmbiguity == [status |-> "", reasons |-> <<>>]

NoObject == [startSymbol |-> <<>>, nonTerminals |-> 0, terminals |-> 0, productions |-> 0]
NoOutcome == [success |-> FALSE, grammar |-> NoObject, steps |-> <<>>,
              explanation |-> [kind |-> "", count |-> 0]]
NoPass == [pass |-> "", grammar |-> NoGrammar, changed |-> FALSE]

TransformIdle ==
  /\ store = <<>>
  /\ given = NoObject
  /\ current = NoObject
  /\ steps = <<>>
  /\ modified = FALSE
  /\ outcome = NoOutcome
  /\ once = NoPass
  /\ twice = NoPass

\* the module's counter as loaded, and no build or sample call made
NoLimits == [maxTrees |-> 0, maxDepth |-> 0, maxLength |-> 0, maxSamples |-> 0]
TreeIdle ==
  /\ nodeCounter = 0
  /\ trees = <<>>
  /\ samples = <<>>
  /\ limits = NoLimits

\* the initial values of the useState cells (Index.tsx 28-32, 46-53)
InitialPage ==
  [grammarText |-> <<>>, errors |-> <<>>, isAnalyzing |-> FALSE,
   grammar |-> Null, ambiguityResult |-> Null, transformResult |-> Null,
   convertedGrammarText |-> <<>>, convertedGrammar |-> Null,
   firstSets |-> Null, followSets |-> Null, ll1Conflicts |-> <<>>]

PageIdle == page = InitialPage /\ pending = Null

DisplayIdle == TreeIdle /\ PageIdle

AnalysisIdle ==
  /\ grammar = NoGrammar
  /\ first = <<>>
  /\ follow = <<>>
  /\ changed = FALSE
  /\ iters = 0
  /\ conflicts = <<>>
  /\ ambiguity = NoAmbiguity

InitParse ==
  /\ pc = "input"
  /\ source \in Sources
  /\ input = Render(source)
  /\ result = NoResult
  /\ reparsed = NoResult
  /\ AnalysisIdle
  /\ TransformIdle
  /\ DisplayIdle

Parse ==
  /\ pc = "input"
  /\ result' = ParseGrammar(input)
  /\ pc' = "parsed"
  /\ UNCHANGED tvars
  /\ UNCHANGED uvars
  /\ UNCHANGED <<source, input, reparsed, grammar, first, follow, changed, iters,
                 conflicts, ambiguity>>

RoundTrip ==
  /\ pc = "parsed"
  /\ result.grammar # Null
  /\ reparsed' = ParseGrammar(GrammarToString(result.grammar[1]))
  /\ pc' = "reparsed"
  /\ UNCHANGED tvars
  /\ UNCHANGED uvars
  /\ UNCHANGED <<source, input, result, grammar, first, follow, changed, iters,
                 conflicts, ambiguity>>

NextParse == Parse \/ RoundTrip

SpecParse == InitParse /\ [][NextParse]_vars

(***************************************************************************)
(* The analysis run on a grammar G: computeFirstFollow(G), one action per  *)
(* iteration of each while loop, then checkLL1Conflicts(G, ff) and         *)
(* detectAmbiguity(G)  (the calls of handleAnalyze, Index.tsx 73-79).      *)
(***************************************************************************)
ParserIdle ==
  /\ source = [items |-> <<>>, style |-> "compact"]
  /\ input = <<>>
  /\ result = NoResult
  /\ reparsed = NoResult

InitFF ==
  /\ pc = "grammar"
  /\ grammar \in Grammars
  /\ first = <<>>
  /\ follow = <<>>
  /\ changed = FALSE
  /\ iters = 0
  /\ conflicts = <<>>
  /\ ambiguity = NoAmbiguity
  /\ ParserIdle
  /\ TransformIdle
  /\ DisplayIdle

\* types.ts 68-81
Initialize ==
  /\ pc = "grammar"
  /\ first' = InitialFirst(grammar)
  /\ follow' = InitialFollow(grammar)
  /\ changed' = TRUE
  /\ iters' = 0
  /\ pc' = "first"
  /\ UNCHANGED tvars
  /\ UNCHANGED uvars
  /\ UNCHANGED <<source, input, result, reparsed, grammar, conflicts, ambiguity>>

\* types.ts 82-96, one iteration
FirstIteration ==
  /\ pc = "first"
  /\ changed
  /\ LET pass == FirstPass(Rules(grammar.productions), first, FALSE)
     IN /\ first' = pass.first
        /\ changed' = pass.changed
  /\ iters' = iters + 1
  /\ UNCHANGED tvars
  /\ UNCHANGED uvars
  /\ UNCHANGED <<pc, source, input, result, reparsed, grammar, follow, conflicts, ambiguity>>

\* types.ts 98-100: the FIRST loop has exited
StartFollow ==
  /\ pc = "first"
  /\ ~changed
  /\ follow' = SeedFollow(grammar, follow)
  /\ changed' = TRUE
  /\ iters' = 0
  /\ pc' = "follow"
  /\ UNCHANGED tvars
  /\ UNCHANGED uvars
  /\ UNCHANGED <<source, input, result, reparsed, grammar, first, conflicts, ambiguity>>

\* types.ts 101-132, one iteration
FollowIteration ==
  /\ pc = "follow"
  /\ changed
  /\ LET pass == FollowPass(Rules(grammar.productions), first, follow, FALSE)
     IN /\ follow' = pass.follow
        /\ changed' = pass.changed
  /\ iters' = iters + 1
  /\ UNCHANGED tvars
  /\ UNCHANGED uvars
  /\ UNCHANGED <<pc, source, input, result, reparsed, grammar, first, conflicts, ambiguity>>

\* types.ts 134: return { first, follow }
ReturnSets ==
  /\ pc = "follow"
  /\ ~changed
  /\ pc' = "sets"
  /\ UNCHANGED tvars
  /\ UNCHANGED uvars
  /\ UNCHANGED <<source, input, result, reparsed, grammar, first, follow, changed, iters,
                 conflicts, ambiguity>>

CheckConflicts ==
  /\ pc = "sets"
  /\ conflicts' = CheckLL1Conflicts(grammar, [first |-> first, follow |-> follow])
  /\ pc' = "ll1"
  /\ UNCHANGED tvars
  /\ UNCHANGED uvars
  /\ UNCHANGED <<source, input, result, reparsed, grammar, first, follow, changed, iters,
                 ambiguity>>

Detect ==
  /\ pc = "ll1"
  /\ ambiguity' = DetectAmbiguity(grammar)
  /\ pc' = "done"
  /\ UNCHANGED tvars
  /\ UNCHANGED uvars
  /\ UNCHANGED <<source, input, result, reparsed, grammar, first, follow, changed, iters,
                 conflicts>>

NextFF ==
  \/ Initialize
  \/ FirstIteration
  \/ StartFollow
  \/ FollowIteration
  \/ ReturnSets
  \/ CheckConflicts
  \/ Detect

SpecFF == InitFF /\ [][NextFF]_vars

\* the stepped run and the function agree
StepsAgree ==
  /\ pc \in {"sets", "ll1", "done"} =>
       [first |-> first, follow |-> follow] = ComputeFirstFollow(grammar)

(***************************************************************************)
(* Claims about parseGrammar and grammarToString (specification SpecParse) *)
(***************************************************************************)
Parsed == pc \in {"parsed", "reparsed"}

\* C1: parseGrammar returns either a grammar and no errors, or no grammar
\* and at least one error; never a grammar with errors, never neither.
C1_GrammarXorErrors ==
  /\ Parsed =>
       \/ result.grammar # Null /\ result.errors = <<>>
       \/ result.grammar = Null /\ result.errors # <<>>
  /\ pc = "reparsed" =>
       \/ reparsed.grammar # Null /\ reparsed.errors = <<>>
       \/ reparsed.grammar = Null /\ reparsed.errors # <<>>

\* a parse that reported a line error and an undefined non-terminal together
C1_Witness ==
  /\ pc = "parsed"
  /\ result.grammar = Null
  /\ \E i, j \in 1..Len(result.errors) :
        result.errors[i].line > 0 /\ result.errors[j].message[1] = "Undefined"

\* C2: for a grammar G returned by a successful parseGrammar,
\* parseGrammar(grammarToString(G)) succeeds with no errors and gives the
\* same start symbol, the same heads in the same order and, per head, the
\* same ordered list of bodies (types and values).
C2_RoundTrip ==
  pc = "reparsed" =>
    /\ reparsed.errors = <<>>
    /\ reparsed.grammar # Null
    /\ reparsed.grammar[1].startSymbol = result.grammar[1].startSymbol
    /\ reparsed.grammar[1].productions = result.grammar[1].productions

\* a round trip of a two-head grammar with an ε body and a two-symbol body,
\* typed otherwise than the serializer writes it
C2_Witness ==
  /\ pc = "reparsed"
  /\ Len(result.grammar[1].productions) >= 2
  /\ \E k \in 1..Len(Rules(result.grammar[1].productions)) :
        Rules(result.grammar[1].productions)[k].body = <<Epsilon>>
  /\ \E k \in 1..Len(Rules(result.grammar[1].productions)) :
        Len(Rules(result.grammar[1].productions)[k].body) >= 2
  /\ input # GrammarToString(result.grammar[1])

\* an input all of whose lines are well-formed productions, told from the
\* items it was typed from: it starts with a head, every head is a valid
\* name followed by the ASCII arrow, every alternative holds a token, and
\* no token holds a character of the line syntax
PlainToken(v) ==
  /\ v # <<>>
  /\ \A i \in 1..Len(v) : v[i] \notin WhiteSpace \cup {"\n", "|", "-", ">", "/"}

WellFormedLines(its) ==
  /\ Len(its) >= 1
  /\ its[1].k = "head"
  /\ \A i \in 1..Len(its) :
       /\ its[i].k # "nl"
       /\ its[i].k = "head" => IsNonTerminalName(its[i].v) /\ its[i].a = AsciiArrow
       /\ its[i].k = "tok" => PlainToken(its[i].v)
       /\ its[i].k \in {"head", "bar"} => i < Len(its) /\ its[i+1].k = "tok"

UsedNames(its) ==
  {its[i].v : i \in {i \in 1..Len(its) : its[i].k = "tok" /\ IsNonTerminalName(its[i].v)}}
DefinedNames(its) == {its[i].v : i \in {i \in 1..Len(its) : its[i].k = "head"}}
UndefinedNames(its) == UsedNames(its) \ DefinedNames(its)

\* C3: for an input whose lines are all well-formed productions, the errors
\* are exactly one line-0 error per distinct non-terminal that occurs in a
\* body and heads no production, and when there is one no grammar is
\* returned.
C3_UndefinedReported ==
  (Parsed /\ WellFormedLines(source.items)) =>
    /\ Len(result.errors) = Cardinality(UndefinedNames(source.items))
    /\ Range(result.errors) =
         {Err(0, 0, "Undefined", n) : n \in UndefinedNames(source.items)}
    /\ (UndefinedNames(source.items) # {} => result.grammar = Null)

\* a well-formed input that uses one undefined name twice and another once
C3_Witness ==
  /\ pc = "parsed"
  /\ WellFormedLines(source.items)
  /\ Cardinality(UndefinedNames(source.items)) = 2
  /\ \E i, j \in 1..Len(source.items) :
        /\ i # j
        /\ source.items[i].k = "tok"
        /\ source.items[i] = source.items[j]
        /\ source.items[i].v \in UndefinedNames(source.items)

\* the same source typed with the ASCII arrow throughout
AsciiSource(src) ==
  [src EXCEPT !.items =
     [i \in 1..Len(src.items) |->
        IF src.items[i].k = "head" THEN [src.items[i] EXCEPT !.a = AsciiArrow]
        ELSE src.items[i]]]

\* C4: a production line written with the Unicode arrow → is accepted and
\* gives the same head and bodies as the same line written with ->, so the
\* parse of a text equals the parse of the text with every arrow in ASCII.
C4_UnicodeArrowAccepted ==
  Parsed => result = ParseGrammar(Render(AsciiSource(source)))

(***************************************************************************)
(* Reference FIRST and FOLLOW: the definitions of the glossary, computed   *)
(* from the nullable non-terminals and front-reachability, with an ε       *)
(* symbol deriving the empty string wherever it stands.                    *)
(***************************************************************************)
RefNullableSym(sym, N) ==
  sym.type = "epsilon" \/ (sym.type = "nonterminal" /\ sym.value \in N)

RefNullableStr(str, N) == \A m \in 1..Len(str) : RefNullableSym(str[m], N)

RECURSIVE RefNullableFrom(_, _)
RefNullableFrom(rules, N) ==
  LET N2 == N \cup {rules[k].head :
                      k \in {k \in 1..Len(rules) : RefNullableStr(rules[k].body, N)}}
  IN IF N2 = N THEN N ELSE RefNullableFrom(rules, N2)

\* the symbols a string can begin with after its nullable prefixes vanish
RefExposed(str, N) ==
  {str[k] : k \in {k \in 1..Len(str) : RefNullableStr(SubSeq(str, 1, k - 1), N)}}

MaxBodyLen(rules) ==
  IF rules = <<>> THEN 0
  ELSE CHOOSE n \in {Len(rules[k].body) : k \in 1..Len(rules)} :
         \A k \in 1..Len(rules) : Len(rules[k].body) <= n

NonTerminalsOf(syms) == {x.value : x \in {y \in syms : y.type = "nonterminal"}}
TerminalsOf(syms) == {x.value : x \in {y \in syms : y.type = "terminal"}}

ExposedBy(rules, N, X) ==
  UNION {RefExposed(rules[k].body, N) : k \in {k \in 1..Len(rules) : rules[k].head \in X}}

RECURSIVE RefFrontClosure(_, _, _)
RefFrontClosure(rules, N, X) ==
  LET X2 == X \cup NonTerminalsOf(ExposedBy(rules, N, X))
  IN IF X2 = X THEN X ELSE RefFrontClosure(rules, N, X2)

RefFirstOfString(rules, N, str) ==
  LET front == RefExposed(str, N)
      reach == RefFrontClosure(rules, N, NonTerminalsOf(front))
  IN TerminalsOf(front \cup ExposedBy(rules, N, reach))
       \cup (IF RefNullableStr(str, N) THEN {EpsilonValue} ELSE {})

RefFirst(g, X) ==
  RefFirstOfString(Rules(g.productions), RefNullableFrom(Rules(g.productions), {}),
                   <<NonTerminal(X)>>)

\* the occurrences of non-terminal X: [head, rest] for each position holding X
Occurrences(rules, X) ==
  {[head |-> rules[k[1]].head,
    rest |-> SubSeq(rules[k[1]].body, k[2] + 1, Len(rules[k[1]].body))] :
     k \in {k \in (1..Len(rules)) \X (1..MaxBodyLen(rules)) :
              /\ k[2] <= Len(rules[k[1]].body)
              /\ rules[k[1]].body[k[2]] = NonTerminal(X)}}

\* one simultaneous application of the FOLLOW rules
RefFollowStep(g, rules, N, fol) ==
  [X \in DOMAIN fol |->
     (IF X = g.startSymbol THEN {EndMarker} ELSE {})
     \cup UNION {LET f == RefFirstOfString(rules, N, o.rest)
                 IN (f \ {EpsilonValue})
                    \cup (IF EpsilonValue \in f \/ o.rest = <<>> THEN fol[o.head] ELSE {}) :
                 o \in Occurrences(rules, X)}]

RECURSIVE RefFollowFrom(_, _, _, _)
RefFollowFrom(g, rules, N, fol) ==
  LET next == RefFollowStep(g, rules, N, fol)
  IN IF next = fol THEN fol ELSE RefFollowFrom(g, rules, N, next)

\* the least fixed point of the FOLLOW rules
RefFollow(g) ==
  RefFollowFrom(g, Rules(g.productions), RefNullableFrom(Rules(g.productions), {}),
                [X \in Range(g.nonTerminals) |-> {}])

\* the conflicts of the LL(1) rules over the reference sets, by head, then pair
RefConflicts(g) ==
  LET rules == Rules(g.productions)
      N == RefNullableFrom(rules, {})
      fol == RefFollow(g)
      F(b) == RefFirstOfString(rules, N, b)
      OfPair(head, bodies, i, j) ==
        (IF (F(bodies[i]) \cap F(bodies[j])) \ {EpsilonValue} # {}
         THEN <<Conflict("FIRST/FIRST", head, <<i, j>>,
                         (F(bodies[i]) \cap F(bodies[j])) \ {EpsilonValue})>>
         ELSE <<>>)
        \o (IF EpsilonValue \in F(bodies[i]) /\ F(bodies[j]) \cap fol[head] # {}
            THEN <<Conflict("FIRST/FOLLOW", head, <<j>>, F(bodies[j]) \cap fol[head])>>
            ELSE <<>>)
      OfHead(head, bodies) ==
        Concat([i \in 1..Len(bodies) |->
                  Concat([d \in 1..(Len(bodies) - i) |-> OfPair(head, bodies, i, i + d)])])
  IN Concat([h \in 1..Len(g.productions) |->
               OfHead(g.productions[h].head, g.productions[h].bodies)])

\* no ε symbol stands before another symbol of its body
EpsilonLast(g) ==
  \A k \in 1..Len(Rules(g.productions)) :
    LET body == Rules(g.productions)[k].body
    IN \A m \in 1..(Len(body) - 1) : body[m].type # "epsilon"

(***************************************************************************)
(* Claims about computeFirstFollow, checkLL1Conflicts and detectAmbiguity  *)
(* (specification SpecFF)                                                  *)
(***************************************************************************)
SetsReturned == pc \in {"sets", "ll1", "done"}
HeadSet(g) == Range(Heads(g.productions))

\* C5: the FIRST set computeFirstFollow returns for each head H is the
\* reference FIRST(H): the terminals that can begin a derivation from H,
\* and ε exactly when H derives the empty string, an ε symbol deriving the
\* empty string whatever its position in a body.
C5_FirstIsReference ==
  SetsReturned => \A X \in HeadSet(grammar) : first[X] = RefFirst(grammar, X)

\* the same, for the grammars in which ε only ever ends a body
FirstIsReferenceEpsilonLast ==
  (SetsReturned /\ EpsilonLast(grammar)) =>
     \A X \in HeadSet(grammar) : first[X] = RefFirst(grammar, X)

ExampleAnBn ==
  MakeGrammar(<<Entry(<<"A">>, <<<<Terminal(<<"a">>), NonTerminal(<<"A">>), Terminal(<<"b">>)>>,
                                 <<Epsilon>>>>)>>)

\* C6: the FOLLOW sets returned are the least fixed point of the rules
\* ($ in FOLLOW(start); for X followed by rest in a body of H, FIRST(rest)
\* minus ε in FOLLOW(X), and FOLLOW(H) too when FIRST(rest) holds ε or rest
\* is empty); no FOLLOW set holds ε; and A -> a A b | ε gives
\* FIRST(A) = {a, ε}, FOLLOW(A) = {$, b}.
C6_FollowIsLeastFixedPoint ==
  SetsReturned =>
    /\ follow = RefFollow(grammar)
    /\ \A X \in DOMAIN follow : EpsilonValue \notin follow[X]
    /\ EndMarker \in follow[grammar.startSymbol]
    /\ grammar = ExampleAnBn =>
         /\ first[<<"A">>] = {<<"a">>, EpsilonValue}
         /\ follow[<<"A">>] = {EndMarker, <<"b">>}

\* the same, for the grammars in which ε only ever ends a body
FollowIsLeastFixedPointEpsilonLast ==
  (SetsReturned /\ EpsilonLast(grammar)) =>
    /\ follow = RefFollow(grammar)
    /\ \A X \in DOMAIN follow : EpsilonValue \notin follow[X]
    /\ EndMarker \in follow[grammar.startSymbol]
    /\ grammar = ExampleAnBn =>
         /\ first[<<"A">>] = {<<"a">>, EpsilonValue}
         /\ follow[<<"A">>] = {EndMarker, <<"b">>}

\* C8: checkLL1Conflicts lists, by head and then by pair i < j, a
\* FIRST/FIRST conflict exactly when FIRST(body_i) and FIRST(body_j) share
\* a terminal other than ε (naming the shared terminals, i and j), and a
\* FIRST/FOLLOW conflict exactly when FIRST(body_i) holds ε and FIRST(body_j)
\* meets FOLLOW(head).
C8_ConflictsAreReference ==
  pc \in {"ll1", "done"} => conflicts = RefConflicts(grammar)

\* the same, for the grammars in which ε only ever ends a body
ConflictsAreReferenceEpsilonLast ==
  (pc \in {"ll1", "done"} /\ EpsilonLast(grammar)) => conflicts = RefConflicts(grammar)

\* A call of an engine function runs to its return: while the analysis has
\* not returned, some step of it is taken.  Every step of NextFF changes
\* pc or iters, and one is enabled in every state but the last.
Proceeds ==
  /\ pc # "done"
  /\ pc' \in {"first", "follow", "sets", "ll1", "done"}
  /\ iters' \in {0, iters, iters + 1}

SpecFFFair == SpecFF /\ WF_<<pc, iters>>(Proceeds)

SetAlphabet(g) == Range(g.terminals) \cup {EpsilonValue, EndMarker}

\* every iteration but the last one of a loop adds a member to the set of a
\* non-terminal, and a set holds terminals and one marker at most
IterationBound(g) == Len(g.nonTerminals) * (Len(g.terminals) + 1) + 1

InLoop == pc \in {"first", "follow"}

SetsBounded ==
  pc # "grammar" =>
    /\ \A n \in DOMAIN first : first[n] \subseteq SetAlphabet(grammar)
    /\ \A n \in DOMAIN follow : follow[n] \subseteq SetAlphabet(grammar)
    /\ InLoop => iters <= IterationBound(grammar)

LoopStep ==
  /\ InLoop =>
       /\ \A n \in DOMAIN first : first[n] \subseteq first'[n]
       /\ \A n \in DOMAIN follow : follow[n] \subseteq follow'[n]
  /\ (InLoop /\ pc' = pc) =>
       /\ changed
       /\ changed' <=> (first' # first \/ follow' # follow)
  /\ (InLoop /\ ~changed) => pc' # pc

\* C7: on every grammar both fixed-point loops of computeFirstFollow
\* terminate: every FIRST and FOLLOW set only grows from one iteration to
\* the next and stays inside terminals ∪ {ε, $}, an iteration runs only
\* while the last one grew a set, the loop is left after the first
\* iteration that grows none, and the function returns.
C7_LoopsTerminate ==
  /\ []SetsBounded
  /\ [][LoopStep]_vars
  /\ <>SetsReturned

\* a FIRST loop about to exit after its third iteration
C7_Witness ==
  /\ pc = "first"
  /\ ~changed
  /\ iters >= 3
  /\ \E k \in 1..Len(Rules(grammar.productions)) :
        LET r == Rules(grammar.productions)[k]
        IN r.body[1].type = "nonterminal" /\ r.body[1].value # r.head

HasSeverity(reasons, sev) == \E k \in 1..Len(reasons) : reasons[k].severity = sev

\* C9: the status detectAmbiguity returns is a function of its reasons:
\* ambiguous iff some reason is of high severity, possibly-ambiguous iff
\* there are reasons and none is high, no-ambiguity-detected iff there is
\* no reason.
C9_StatusFromReasons ==
  pc = "done" =>
    /\ ambiguity.status = "ambiguous" <=> HasSeverity(ambiguity.reasons, "high")
    /\ ambiguity.status = "possibly-ambiguous" <=>
         (ambiguity.reasons # <<>> /\ ~HasSeverity(ambiguity.reasons, "high"))
    /\ ambiguity.status = "no-ambiguity-detected" <=> ambiguity.reasons = <<>>

\* reasons of medium and low severity only
C9_Witness ==
  /\ pc = "done"
  /\ ambiguity.status = "possibly-ambiguous"
  /\ HasSeverity(ambiguity.reasons, "medium")
  /\ HasSeverity(ambiguity.reasons, "low")

ExampleExpr ==
  MakeGrammar(<<Entry(<<"E">>, <<<<NonTerminal(<<"E">>), Terminal(<<"+">>), NonTerminal(<<"E">>)>>,
                                 <<Terminal(<<"i", "d">>)>>>>)>>)

\* the bodies of three symbols or more that begin and end with their head
ExpressionBodies(g) ==
  SelectSeq(Rules(g.productions),
            LAMBDA r : /\ Len(r.body) >= 3
                       /\ r.body[1] = NonTerminal(r.head)
                       /\ r.body[Len(r.body)] = NonTerminal(r.head))

ExpressionFound(reasons) == SelectSeq(reasons, LAMBDA x : x.type = "Expression Ambiguity")

\* C10: detectAmbiguity gives one high-severity "Expression Ambiguity"
\* reason for each body of length >= 3 whose first and last symbols are
\* both the non-terminal that is its head, and for no other body; so
\* E -> E + E | id has one and the status ambiguous.
C10_ExpressionAmbiguity ==
  pc = "done" =>
    /\ Len(ExpressionFound(ambiguity.reasons)) = Len(ExpressionBodies(grammar))
    /\ \A k \in 1..Len(ExpressionFound(ambiguity.reasons)) :
         /\ ExpressionFound(ambiguity.reasons)[k].severity = "high"
         /\ ExpressionFound(ambiguity.reasons)[k].involvedRules =
              <<FormatRule(ExpressionBodies(grammar)[k].head,
                           ExpressionBodies(grammar)[k].body)>>
    /\ grammar = ExampleExpr =>
         /\ Len(ExpressionFound(ambiguity.reasons)) = 1
         /\ ambiguity.status = "ambiguous"

\* E -> E + E | id analysed
C10_Witness ==
  /\ pc = "done"
  /\ grammar = ExampleExpr
  /\ Len(ExpressionFound(ambiguity.reasons)) = 1

\* body i of the head starts with the head and does not end with it, and
\* another body j ends with the head and does not start with it
MixedPair(head, bodies, i, j) ==
  /\ i # j
  /\ IsHead(bodies[i][1], head)
  /\ ~IsHead(bodies[i][Len(bodies[i])], head)
  /\ IsHead(bodies[j][Len(bodies[j])], head)
  /\ ~IsHead(bodies[j][1], head)

MixedReported(head) ==
  \E k \in 1..Len(ambiguity.reasons) :
     /\ ambiguity.reasons[k].type = "Mixed Recursion"
     /\ ambiguity.reasons[k].severity = "medium"
     /\ ambiguity.reasons[k].description.head = head

\* C11: detectAmbiguity gives a medium-severity "Mixed Recursion" reason
\* for a head whenever the head has a body that starts with the head and
\* does not end with it, and a different body that ends with the head and
\* does not start with the head (whatever else that body starts with).
C11_MixedRecursionReported ==
  pc = "done" =>
    \A h \in 1..Len(grammar.productions) :
      LET head == grammar.productions[h].head
          bodies == grammar.productions[h].bodies
      IN (\E i, j \in 1..Len(bodies) : MixedPair(head, bodies, i, j))
           => MixedReported(head)

\* the same, for right-recursive bodies that start with no non-terminal
MixedRecursionReportedAfterTerminal ==
  pc = "done" =>
    \A h \in 1..Len(grammar.productions) :
      LET head == grammar.productions[h].head
          bodies == grammar.productions[h].bodies
      IN (\E i, j \in 1..Len(bodies) :
            MixedPair(head, bodies, i, j) /\ bodies[j][1].type # "nonterminal")
           <=> MixedReported(head)

(***************************************************************************)
(* Objects.  A Grammar object holds its start symbol and references to a   *)
(* Map (productions) and two Sets (nonTerminals, terminals) kept in the    *)
(* store.  `new Map(m)` / `new Set(s)` put a copy at a fresh reference; a  *)
(* write goes to the object a reference names.  Body arrays are never      *)
(* written by the transformer and are kept as values.                      *)
(***************************************************************************)
Deref(st, obj) ==
  [startSymbol |-> obj.startSymbol,
   nonTerminals |-> st[obj.nonTerminals],
   terminals |-> st[obj.terminals],
   productions |-> st[obj.productions]]

\* the store and the object of a grammar just returned by parseGrammar
StoreOf(g) == <<g.productions, g.nonTerminals, g.terminals>>
ObjectOf(g) ==
  [startSymbol |-> g.startSymbol, nonTerminals |-> 2, terminals |-> 3, productions |-> 1]

\* a pass that writes into the Map and Set it was given
SameObject(st, ref) == [store |-> st, ref |-> ref]

\* new Map(grammar.productions), new Set(grammar.nonTerminals)
NewCopy(st, ref) == [store |-> Append(st, st[ref]), ref |-> Len(st) + 1]

\* cloneGrammar (part_000 333-344)
CloneGrammar(st, obj) ==
  LET p == NewCopy(st, obj.productions)
      n == NewCopy(p.store, obj.nonTerminals)
      t == NewCopy(n.store, obj.terminals)
  IN [store |-> t.store,
      grammar |-> [startSymbol |-> obj.startSymbol, nonTerminals |-> n.ref,
                   terminals |-> t.ref, productions |-> p.ref]]

\* a pass called on a Grammar object: its two copies, its writes into them (res
\* is what the pass computes from the grammar the object holds) and the object
\* { ...grammar, productions: newProductions, nonTerminals: newNonTerminals }
CallPass(res, st, obj) ==
  LET p == NewCopy(st, obj.productions)
      n == NewCopy(p.store, obj.nonTerminals)
  IN [store |-> [n.store EXCEPT ![p.ref] = res.grammar.productions,
                                ![n.ref] = res.grammar.nonTerminals],
      grammar |-> [obj EXCEPT !.productions = p.ref, !.nonTerminals = n.ref],
      changed |-> res.changed]

PassNames ==
  <<"Operator Precedence & Associativity", "Left Recursion Elimination",
    "Left Factoring", "Dangling Else Resolution">>

\* a step that keeps the text of the grammar transformGrammar was given as `before`
LogStepFromGiven(name, st, before, after) ==
  [name |-> name,
   before |-> GrammarToString(Deref(st, given)),
   after |-> GrammarToString(Deref(st, after))]

\* steps.push({ name, description, before: grammarToString(current), after: grammarToString(result.grammar) })
LogStep(name, st, before, after) ==
  [name |-> name,
   before |-> GrammarToString(Deref(st, before)),
   after |-> GrammarToString(Deref(st, after))]

\* a result that reports success whether or not a pass changed the grammar
ResultAlwaysSuccess(flag, obj, log) ==
  [success |-> TRUE, grammar |-> obj, steps |-> log,
   explanation |-> [kind |-> "applied", count |-> Len(log)]]

\* the two return statements of transformGrammar (part_000 61-77)
TransformResult(flag, obj, log) ==
  IF ~flag
  THEN [success |-> FALSE, grammar |-> obj, steps |-> <<>>,
        explanation |-> [kind |-> "none", count |-> 0]]
  ELSE [success |-> TRUE, grammar |-> obj, steps |-> log,
        explanation |-> [kind |-> "applied", count |-> Len(log)]]

(***************************************************************************)
(* Grammars handed to the transformer: the input grammars of the analysis  *)
(* and grammars parsed from further example texts.                         *)
(***************************************************************************)
If == Tok(KwIf)
Then == Tok(KwThen)
Else == Tok(KwElse)
TransformExampleItems ==
  { \* S -> a b c | a b d | a e
    <<H(<<"S">>), T1("a"), T1("b"), T1("c"), Bar, T1("a"), T1("b"), T1("d"), Bar,
      T1("a"), T1("e")>>,
    \* S -> if cond then S else S | if cond then S | other
    <<H(<<"S">>), If, Tok(KwCond), Then, T1("S"), Else, T1("S"), Bar,
      If, Tok(KwCond), Then, T1("S"), Bar, Tok(<<"o","t","h","e","r">>)>>,
    \* E -> E + E | E - E | id
    <<H(<<"E">>), T1("E"), T1("+"), T1("E"), Bar, T1("E"), T1("-"), T1("E"), Bar, W2("i","d")>>,
    \* E -> E + E | E * E
    <<H(<<"E">>), T1("E"), T1("+"), T1("E"), Bar, T1("E"), T1("*"), T1("E")>>,
    \* E -> E * E | E / E | a
    <<H(<<"E">>), T1("E"), T1("*"), T1("E"), Bar, T1("E"), T1("/"), T1("E"), Bar, T1("a")>>,
    \* E -> E + E | E * E | E - E | E % E | a E | b
    <<H(<<"E">>), T1("E"), T1("+"), T1("E"), Bar, T1("E"), T1("*"), T1("E"), Bar,
      T1("E"), T1("-"), T1("E"), Bar, T1("E"), T1("%"), T1("E"), Bar,
      T1("a"), T1("E"), Bar, T1("b")>>,
    \* E -> E + E | E * E | a ; ET -> ET + ET | ET * ET | b
    <<H(<<"E">>), T1("E"), T1("+"), T1("E"), Bar, T1("E"), T1("*"), T1("E"), Bar, T1("a"),
      H(<<"E", "T">>), W2("E","T"), T1("+"), W2("E","T"), Bar,
      W2("E","T"), T1("*"), W2("E","T"), Bar, T1("b")>>,
    \* E -> E + T | T ; T -> a
    <<H(<<"E">>), T1("E"), T1("+"), T1("T"), Bar, T1("T"), H(<<"T">>), T1("a")>>,
    \* E -> E a | E' ; E' -> E' b | c
    <<H(<<"E">>), T1("E"), T1("a"), Bar, W2("E","'"),
      H(<<"E", "'">>), W2("E","'"), T1("b"), Bar, T1("c")>>,
    \* E -> E a | b ; E' -> c
    <<H(<<"E">>), T1("E"), T1("a"), Bar, T1("b"), H(<<"E", "'">>), T1("c")>>,
    \* S -> i E t S | i E t S e S | a ; E -> b
    <<H(<<"S">>), T1("i"), T1("E"), T1("t"), T1("S"), Bar,
      T1("i"), T1("E"), T1("t"), T1("S"), T1("e"), T1("S"), Bar, T1("a"),
      H(<<"E">>), T1("b")>>,
    \* S -> a b | b | a c | A ; A -> b a | b b | a | b
    <<H(<<"S">>), T1("a"), T1("b"), Bar, T1("b"), Bar, T1("a"), T1("c"), Bar, T1("A"),
      H(<<"A">>), T1("b"), T1("a"), Bar, T1("b"), T1("b"), Bar, T1("a"), Bar, T1("b")>>,
    \* S -> a b | a c ; S1 -> d e | d f
    <<H(<<"S">>), T1("a"), T1("b"), Bar, T1("a"), T1("c"),
      H(<<"S", "1">>), T1("d"), T1("e"), Bar, T1("d"), T1("f")>>,
    \* S -> a b | a c | S1 ; S1 -> d
    <<H(<<"S">>), T1("a"), T1("b"), Bar, T1("a"), T1("c"), Bar, W2("S","1"),
      H(<<"S", "1">>), T1("d")>>,
    \* S -> if e then S else S | if e then S | o | a S
    <<H(<<"S">>), If, T1("e"), Then, T1("S"), Else, T1("S"), Bar,
      If, T1("e"), Then, T1("S"), Bar, T1("o"), Bar, T1("a"), T1("S")>>,
    \* S -> if S else S | if S | SM ; SM -> o
    <<H(<<"S">>), If, T1("S"), Else, T1("S"), Bar, If, T1("S"), Bar, W2("S","M"),
      H(<<"S", "M">>), T1("o")>>,
    \* S -> if S else S | o ; A -> if A | a
    <<H(<<"S">>), If, T1("S"), Else, T1("S"), Bar, T1("o"),
      H(<<"A">>), If, T1("A"), Bar, T1("a")>>,
    \* S -> S a | S b | if S | if S else S | c
    <<H(<<"S">>), T1("S"), T1("a"), Bar, T1("S"), T1("b"), Bar, If, T1("S"), Bar,
      If, T1("S"), Else, T1("S"), Bar, T1("c")>>,
    \* E -> E + E | E * E | a if E | b if E else E | c c | c d
    <<H(<<"E">>), T1("E"), T1("+"), T1("E"), Bar, T1("E"), T1("*"), T1("E"), Bar,
      T1("a"), If, T1("E"), Bar, T1("b"), If, T1("E"), Else, T1("E"), Bar,
      T1("c"), T1("c"), Bar, T1("c"), T1("d")>> }

TransformExamples ==
  {ParseGrammar(Render([items |-> its, style |-> "loose"])).grammar[1] :
     its \in TransformExampleItems}

TransformInputs == Grammars \cup TransformExamples

(***************************************************************************)
(* The run of transformGrammar(G) (part_000 4-78): one action for the      *)
(* clone, one for each pass with the step it logs, one for the return.     *)
(***************************************************************************)
PassIdle == once = NoPass /\ twice = NoPass

InitTransform ==
  /\ pc = "transform"
  /\ grammar \in TransformInputs
  /\ store = StoreOf(grammar)
  /\ given = ObjectOf(grammar)
  /\ current = NoObject
  /\ steps = <<>>
  /\ modified = FALSE
  /\ outcome = NoOutcome
  /\ PassIdle
  /\ DisplayIdle
  /\ ParserIdle
  /\ first = <<>>
  /\ follow = <<>>
  /\ changed = FALSE
  /\ iters = 0
  /\ conflicts = <<>>
  /\ ambiguity = NoAmbiguity

AnalysisVars == <<source, input, result, reparsed, grammar, first, follow, changed, iters,
                  conflicts, ambiguity>>

\* part_000 5-7
Clone ==
  /\ pc = "transform"
  /\ LET c == CloneGrammar(store, given)
     IN /\ store' = c.store
        /\ current' = c.grammar
  /\ steps' = <<>>
  /\ modified' = FALSE
  /\ pc' = "precedence"
  /\ UNCHANGED <<given, outcome, once, twice>>
  /\ UNCHANGED AnalysisVars
  /\ UNCHANGED uvars

\* const r = pass(current); if (r.changed) { steps.push(...); current = r.grammar; modified = true }
PassStep(k, res, from, to) ==
  /\ pc = from
  /\ LET r == CallPass(res, store, current)
     IN /\ store' = r.store
        /\ steps' = IF r.changed
                    THEN Append(steps, LogStep(PassNames[k], r.store, current, r.grammar))
                    ELSE steps
        /\ current' = IF r.changed THEN r.grammar ELSE current
        /\ modified' = (modified \/ r.changed)
  /\ pc' = to
  /\ UNCHANGED <<given, outcome, once, twice>>
  /\ UNCHANGED AnalysisVars
  /\ UNCHANGED uvars

\* part_000 9-20
PrecedenceStep == PassStep(1, ApplyOperatorPrecedence(Deref(store, current)), "precedence", "recursion")

\* part_000 22-33
LeftRecursionStep == PassStep(2, EliminateLeftRecursion(Deref(store, current)), "recursion", "factoring")

\* part_000 35-46
LeftFactorStep == PassStep(3, LeftFactor(Deref(store, current)), "factoring", "else")

\* part_000 48-59
DanglingElseStep == PassStep(4, ResolveDanglingElse(Deref(store, current)), "else", "return")

\* part_000 61-77
Return ==
  /\ pc = "return"
  /\ outcome' = TransformResult(modified, current, steps)
  /\ pc' = "returned"
  /\ UNCHANGED <<store, given, current, steps, modified, once, twice>>
  /\ UNCHANGED AnalysisVars
  /\ UNCHANGED uvars

NextTransform ==
  \/ Clone
  \/ PrecedenceStep
  \/ LeftRecursionStep
  \/ LeftFactorStep
  \/ DanglingElseStep
  \/ Return

SpecTransform == InitTransform /\ [][NextTransform]_vars

(***************************************************************************)
(* One pass called on a grammar G, and then on the grammar it returned.    *)
(***************************************************************************)
InitPass ==
  /\ pc = "pass"
  /\ grammar \in TransformInputs
  /\ TransformIdle
  /\ DisplayIdle
  /\ ParserIdle
  /\ first = <<>>
  /\ follow = <<>>
  /\ changed = FALSE
  /\ iters = 0
  /\ conflicts = <<>>
  /\ ambiguity = NoAmbiguity

Called(k, res) ==
  [pass |-> PassNames[k], grammar |-> res.grammar, changed |-> res.changed]

Apply(k, res) ==
  /\ pc = "pass"
  /\ once' = Called(k, res)
  /\ pc' = "once"
  /\ UNCHANGED <<store, given, current, steps, modified, outcome, twice>>
  /\ UNCHANGED AnalysisVars
  /\ UNCHANGED uvars

Reapply(k, res) ==
  /\ pc = "once"
  /\ once.pass = PassNames[k]
  /\ twice' = Called(k, res)
  /\ pc' = "twice"
  /\ UNCHANGED <<store, given, current, steps, modified, outcome, once>>
  /\ UNCHANGED AnalysisVars
  /\ UNCHANGED uvars

ApplyPrecedence == Apply(1, ApplyOperatorPrecedence(grammar))
ApplyLeftRecursion == Apply(2, EliminateLeftRecursion(grammar))
ApplyLeftFactor == Apply(3, LeftFactor(grammar))
ApplyDanglingElse == Apply(4, ResolveDanglingElse(grammar))
ReapplyPrecedence == Reapply(1, ApplyOperatorPrecedence(once.grammar))
ReapplyLeftRecursion == Reapply(2, EliminateLeftRecursion(once.grammar))
ReapplyLeftFactor == Reapply(3, LeftFactor(once.grammar))
ReapplyDanglingElse == Reapply(4, ResolveDanglingElse(once.grammar))

NextPass ==
  \/ ApplyPrecedence
  \/ ApplyLeftRecursion
  \/ ApplyLeftFactor
  \/ ApplyDanglingElse
  \/ ReapplyPrecedence
  \/ ReapplyLeftRecursion
  \/ ReapplyLeftFactor
  \/ ReapplyDanglingElse

SpecPass == InitPass /\ [][NextPass]_vars

(***************************************************************************)
(* Tree builds and sample calls on a grammar G.  generateParseTrees runs   *)
(* in one action per turn of its loop; builds of other grammars may have   *)
(* run in the same process before it.                                      *)
(***************************************************************************)
MaxTrees == 2
MaxDepth == 2
MaxLength == 2
MaxSamples == 2

\* buildDisplayTrees(grammar, maxDepth = 4)
DisplayDepth == 4

\* productions of example grammars, as parseGrammar builds them
TreeExampleProductions ==
  { \* E -> E + E | id
    <<Entry(<<"E">>, << <<NonTerminal(<<"E">>), Terminal(<<"+">>), NonTerminal(<<"E">>)>>,
                        <<Terminal(<<"i", "d">>)>> >>)>>,
    \* S -> a | b | c
    <<Entry(<<"S">>, << <<Terminal(<<"a">>)>>, <<Terminal(<<"b">>)>>, <<Terminal(<<"c">>)>> >>)>>,
    \* S -> S a | b
    <<Entry(<<"S">>, << <<NonTerminal(<<"S">>), Terminal(<<"a">>)>>, <<Terminal(<<"b">>)>> >>)>>,
    \* A -> a A b | ε
    <<Entry(<<"A">>, << <<Terminal(<<"a">>), NonTerminal(<<"A">>), Terminal(<<"b">>)>>,
                        <<Epsilon>> >>)>>,
    \* A -> B c | a ; B -> b
    <<Entry(<<"A">>, << <<NonTerminal(<<"B">>), Terminal(<<"c">>)>>, <<Terminal(<<"a">>)>> >>),
      Entry(<<"B">>, << <<Terminal(<<"b">>)>> >>)>>,
    \* S -> if S else S | if S | x
    <<Entry(<<"S">>, << <<Terminal(<<"i", "f">>), NonTerminal(<<"S">>),
                          Terminal(<<"e", "l", "s", "e">>), NonTerminal(<<"S">>)>>,
                        <<Terminal(<<"i", "f">>), NonTerminal(<<"S">>)>>,
                        <<Terminal(<<"x">>)>> >>)>> }

\* the grammars trees and samples are asked for: the grammars of at most
\* MaxTreeSymbols symbols and the example grammars
MaxTreeSymbols == 2
TreeInputs ==
  {MakeGrammar(p) : p \in {q \in SmallProductions : Len(AllSymbols(q)) <= MaxTreeSymbols}
                            \cup TreeExampleProductions}

\* the grammars of the builds that ran earlier in the process
EarlierGrammars == {g \in TreeInputs : g.startSymbol = <<"A">>}

OtherVarsIdle ==
  /\ TransformIdle
  /\ ParserIdle
  /\ first = <<>>
  /\ follow = <<>>
  /\ changed = FALSE
  /\ iters = 0
  /\ conflicts = <<>>
  /\ ambiguity = NoAmbiguity

InitTree ==
  /\ pc = "tree"
  /\ grammar \in TreeInputs
  /\ TreeIdle
  /\ PageIdle
  /\ OtherVarsIdle

TreeOtherVars == <<source, input, result, reparsed, grammar, first, follow, changed, iters,
                   conflicts, ambiguity, page, pending>>

\* an earlier call generateParseTrees(G2, [], t, d) that ran to its return
EarlierBuild ==
  /\ pc = "tree"
  /\ \E g \in EarlierGrammars, t \in 1..MaxTrees :
        nodeCounter' = GenerateParseTrees(g, t, MaxDepth).counter
  /\ UNCHANGED <<pc, trees, samples, limits>>
  /\ UNCHANGED tvars
  /\ UNCHANGED TreeOtherVars

\* parsetree.ts 15-16, 80
StartTrees ==
  /\ pc = "tree"
  /\ \E t \in 1..MaxTrees, d \in 0..MaxDepth :
        limits' = [limits EXCEPT !.maxTrees = t, !.maxDepth = d]
  /\ nodeCounter' = 0
  /\ trees' = <<>>
  /\ pc' = IF MapHas(grammar.productions, grammar.startSymbol) THEN "building" ELSE "built"
  /\ UNCHANGED samples
  /\ UNCHANGED tvars
  /\ UNCHANGED TreeOtherVars

\* the loop test of parsetree.ts 83-84
MoreTrees ==
  /\ Len(trees) < Len(MapGet(grammar.productions, grammar.startSymbol))
  /\ Len(trees) < limits.maxTrees

\* one turn of the loop (parsetree.ts 83-89)
BuildTree ==
  /\ pc = "building"
  /\ MoreTrees
  /\ LET t == TreeOfBody(grammar,
                         MapGet(grammar.productions, grammar.startSymbol)[Len(trees) + 1],
                         limits.maxDepth, nodeCounter)
     IN /\ trees' = Append(trees, t.tree)
        /\ nodeCounter' = t.counter
  /\ UNCHANGED <<pc, samples, limits>>
  /\ UNCHANGED tvars
  /\ UNCHANGED TreeOtherVars

\* parsetree.ts 91
ReturnTrees ==
  /\ pc = "building"
  /\ ~MoreTrees
  /\ pc' = "built"
  /\ UNCHANGED <<nodeCounter, trees, samples, limits>>
  /\ UNCHANGED tvars
  /\ UNCHANGED TreeOtherVars

\* buildDisplayTrees(grammar) of ParseTreeView.tsx 12-20, and calls with a smaller depth
DisplayTrees ==
  /\ pc = "tree"
  /\ \E d \in (0..MaxDepth) \cup {DisplayDepth} :
        /\ limits' = [limits EXCEPT !.maxDepth = d]
        /\ trees' = BuildDisplayTrees(grammar, d)
  /\ pc' = "displayed"
  /\ UNCHANGED <<nodeCounter, samples>>
  /\ UNCHANGED tvars
  /\ UNCHANGED TreeOtherVars

\* generateSampleStrings(grammar, maxLength, maxSamples)
SampleStrings ==
  /\ pc = "tree"
  /\ \E len \in 1..MaxLength, n \in 1..MaxSamples :
        /\ limits' = [limits EXCEPT !.maxLength = len, !.maxSamples = n]
        /\ samples' = GenerateSampleStrings(grammar, len, n)
  /\ pc' = "sampled"
  /\ UNCHANGED <<nodeCounter, trees>>
  /\ UNCHANGED tvars
  /\ UNCHANGED TreeOtherVars

NextTree ==
  \/ EarlierBuild
  \/ StartTrees
  \/ BuildTree
  \/ ReturnTrees
  \/ DisplayTrees
  \/ SampleStrings

SpecTree == InitTree /\ [][NextTree]_vars

(***************************************************************************)
(* The page (Index.tsx 27-94): the text of the editor, the Analyze button  *)
(* and the callback handleAnalyze hands to setTimeout.                     *)
(***************************************************************************)
\* transformGrammar (part_000 4-78) as one call: the state after one pass
RunPass(k, res, st) ==
  LET r == CallPass(res, st.store, st.current)
  IN [store |-> r.store,
      current |-> IF r.changed THEN r.grammar ELSE st.current,
      steps |-> IF r.changed
                THEN Append(st.steps, LogStep(PassNames[k], r.store, st.current, r.grammar))
                ELSE st.steps,
      modified |-> (st.modified \/ r.changed)]

\* the grammar value the state of a run holds as `current`
CurrentOf(st) == Deref(st.store, st.current)

\* part_000 5-8
StartPasses(c) == [store |-> c.store, current |-> c.grammar, steps |-> <<>>, modified |-> FALSE]

\* part_000 10-22, 24-36, 38-50, 52-64
AfterPrecedence(st) == RunPass(1, ApplyOperatorPrecedence(CurrentOf(st)), st)
AfterRecursion(st) == RunPass(2, EliminateLeftRecursion(CurrentOf(st)), st)
AfterFactoring(st) == RunPass(3, LeftFactor(CurrentOf(st)), st)
AfterElse(st) == RunPass(4, ResolveDanglingElse(CurrentOf(st)), st)

\* part_000 66-77, with the grammar of the result held as a value
ResultOf(st) ==
  [TransformResult(st.modified, st.current, st.steps) EXCEPT !.grammar = CurrentOf(st)]

\* transformGrammar(g)
TransformGrammar(g) ==
  ResultOf(AfterElse(AfterFactoring(AfterRecursion(AfterPrecedence(
    StartPasses(CloneGrammar(StoreOf(g), ObjectOf(g))))))))

\* the texts typed into the editor
PageItems ==
  { <<H(<<"S">>), T1("a")>>,
    <<H(<<"S">>), T1("A")>>,
    <<H(<<"S">>), T1("a"), Bar, T1("a"), T1("b")>>,
    <<H(<<"E">>), T1("E"), T1("+"), T1("E"), Bar, T1("E"), T1("*"), T1("E"), Bar, T1("a")>>,
    <<T1("a"), T1("b")>>,
    <<Nl>>,
    <<>> }

PageTexts == {Render([items |-> its, style |-> "compact"]) : its \in PageItems}

InitPage ==
  /\ pc = "page"
  /\ PageIdle
  /\ TreeIdle
  /\ grammar = NoGrammar
  /\ OtherVarsIdle

PageOtherVars == <<pc, source, input, result, reparsed, grammar, first, follow, changed,
                   iters, conflicts, ambiguity, nodeCounter, trees, samples, limits>>

\* <GrammarEditor value={grammarText} onChange={setGrammarText} /> (Index.tsx 162)
Edit ==
  /\ \E t \in PageTexts : page' = [page EXCEPT !.grammarText = t]
  /\ UNCHANGED pending
  /\ UNCHANGED tvars
  /\ UNCHANGED PageOtherVars

\* a click on Analyze (Index.tsx 147-148): handleAnalyze up to setTimeout (55-58)
HandleAnalyze ==
  /\ Trim(page.grammarText) # <<>>
  /\ ~page.isAnalyzing
  /\ page' = [page EXCEPT !.isAnalyzing = TRUE]
  /\ pending' = Some(page.grammarText)
  /\ UNCHANGED tvars
  /\ UNCHANGED PageOtherVars

\* the state the callback leaves after a parse with errors (Index.tsx 60-68)
AfterErrors(pg, parsed) ==
  [pg EXCEPT !.errors = parsed.errors, !.isAnalyzing = FALSE, !.grammar = Null,
             !.ambiguityResult = Null, !.transformResult = Null]

\* the state the callback leaves after a parse without errors (Index.tsx 60, 71-91)
AfterAnalysis(pg, parsed, g, ff, tx) ==
  [pg EXCEPT !.errors = parsed.errors, !.grammar = Some(g),
             !.ambiguityResult = Some(DetectAmbiguity(g)),
             !.firstSets = Some(ff.first), !.followSets = Some(ff.follow),
             !.ll1Conflicts = CheckLL1Conflicts(g, ff),
             !.transformResult = Some(tx),
             !.convertedGrammarText = GrammarToString(tx.grammar),
             !.convertedGrammar = Some(tx.grammar),
             !.isAnalyzing = FALSE]

\* the callback of setTimeout (Index.tsx 58-93) on the result of parseGrammar
Callback(pg, parsed) ==
  IF parsed.grammar = Null THEN AfterErrors(pg, parsed)
  ELSE AfterAnalysis(pg, parsed, parsed.grammar[1], ComputeFirstFollow(parsed.grammar[1]),
                     TransformGrammar(parsed.grammar[1]))

\* the callback of setTimeout (Index.tsx 58-93), on the text handleAnalyze closed over
Timeout ==
  /\ pending # Null
  /\ page' = Callback(page, ParseGrammar(pending[1]))
  /\ pending' = Null
  /\ UNCHANGED tvars
  /\ UNCHANGED PageOtherVars

NextPage == Edit \/ HandleAnalyze \/ Timeout

SpecPage == InitPage /\ [][NextPage]_vars

(***************************************************************************)
(* Claims about transformGrammar (specification SpecTransform)             *)
(***************************************************************************)
Returned == pc = "returned"

\* the grammar value an object reference stands for now
Now(obj) == Deref(store, obj)

\* the place of a step's name in the order of the passes, 0 for no pass
PassIndex(name) ==
  IF \E k \in 1..Len(PassNames) : PassNames[k] = name
  THEN CHOOSE k \in 1..Len(PassNames) : PassNames[k] = name
  ELSE 0

\* C12: the steps of a result of transformGrammar name passes in the fixed
\* order operator precedence, left recursion elimination, left factoring,
\* dangling-else resolution, each at most once; the first `before` is the
\* text of the input grammar, every later `before` is the `after` of the
\* step before it, and the last `after` is the text of the returned
\* grammar.
C12_StepsChain ==
  Returned =>
    LET log == outcome.steps
    IN /\ \A i \in 1..Len(log) : PassIndex(log[i].name) \in 1..Len(PassNames)
       /\ \A i \in 1..(Len(log) - 1) : PassIndex(log[i].name) < PassIndex(log[i + 1].name)
       /\ log # <<>> =>
            /\ log[1].before = GrammarToString(grammar)
            /\ \A i \in 2..Len(log) : log[i].before = log[i - 1].after
            /\ log[Len(log)].after = GrammarToString(Now(outcome.grammar))

\* a result in which every pass logged a step
C12_Witness ==
  /\ Returned
  /\ Len(outcome.steps) = 4

\* C13: every step of a result of transformGrammar has an `after` that
\* differs from its `before`, and a result with success = true holds a
\* grammar that differs from the input grammar.
C13_StepsChange ==
  Returned =>
    /\ \A i \in 1..Len(outcome.steps) : outcome.steps[i].after # outcome.steps[i].before
    /\ outcome.success => Now(outcome.grammar) # grammar

\* the same, unless a head has two operator alternatives or more
FewOperators(g) ==
  \A h \in 1..Len(g.productions) :
     Len(SelectSeq(g.productions[h].bodies,
                   LAMBDA b : IsOpBody(g.productions[h].head, b))) < 2

StepsChangeFewOperators ==
  (Returned /\ FewOperators(grammar)) =>
    /\ \A i \in 1..Len(outcome.steps) : outcome.steps[i].after # outcome.steps[i].before
    /\ outcome.success => Now(outcome.grammar) # grammar

\* the passes that report a change when run one after the other on g
Triggered(g) ==
  LET r1 == ApplyOperatorPrecedence(g)
      g1 == IF r1.changed THEN r1.grammar ELSE g
      r2 == EliminateLeftRecursion(g1)
      g2 == IF r2.changed THEN r2.grammar ELSE g1
      r3 == LeftFactor(g2)
      g3 == IF r3.changed THEN r3.grammar ELSE g2
      r4 == ResolveDanglingElse(g3)
  IN {k \in 1..4 : <<r1, r2, r3, r4>>[k].changed}

NoWrite ==
  /\ Len(store') >= Len(store)
  /\ \A r \in 1..Len(store) : store'[r] = store[r]

\* C20: transformGrammar and its passes leave the Grammar they are given
\* unchanged: its start symbol, non-terminals, terminals, production keys
\* in their order and bodies are after the call what they were before it.
C20_InputUnchanged ==
  /\ [](pc \in {"transform", "precedence", "recursion", "factoring", "else",
                "return", "returned"} => Now(given) = grammar)
  /\ [][NoWrite]_vars

\* a result whose grammar differs from the input while the input object
\* still holds the input grammar, after the clone and the four passes have
\* each allocated and written their copies
C20_Witness ==
  /\ Returned
  /\ outcome.success
  /\ Now(outcome.grammar).productions # grammar.productions
  /\ Now(given) = grammar
  /\ Len(store) = 14

(***************************************************************************)
(* Claims about the single passes (specification SpecPass)                 *)
(***************************************************************************)
Ran(k) == pc = "once" /\ once.pass = PassNames[k]
RanTwice(k) == pc = "twice" /\ once.pass = PassNames[k]

HeadAt(g, h) == g.productions[h].head
BodiesAt(g, h) == g.productions[h].bodies
Out(name) == MapGet(once.grammar.productions, name)
Named(hd, suffix) == hd \o suffix

\* a body H op H with op a terminal
OperatorBody(hd, b) ==
  /\ Len(b) = 3
  /\ b[1] = NonTerminal(hd)
  /\ b[3] = NonTerminal(hd)
  /\ b[2].type = "terminal"

OperatorBodies(hd, bodies) == SelectSeq(bodies, LAMBDA b : OperatorBody(hd, b))
BaseBodies(hd, bodies) == SelectSeq(bodies, LAMBDA b : ~OperatorBody(hd, b))
HighBodies(hd, bodies) ==
  SelectSeq(OperatorBodies(hd, bodies), LAMBDA b : b[2].value \in {<<"*">>, <<"/">>, <<"%">>})
LowBodies(hd, bodies) ==
  SelectSeq(OperatorBodies(hd, bodies), LAMBDA b : b[2].value \notin {<<"*">>, <<"/">>, <<"%">>})

PrecedenceTriggers(hd, bodies) ==
  /\ Len(OperatorBodies(hd, bodies)) >= 2
  /\ HighBodies(hd, bodies) # <<>>
  /\ LowBodies(hd, bodies) # <<>>

\* one alternative `left op right` per operator body, then the alternative `right`
Level(ops, left, right) ==
  [k \in 1..Len(ops) |-> <<NonTerminal(left), ops[k][2], NonTerminal(right)>>]
    \o <<<<NonTerminal(right)>>>>

Replaced(b, hd, name) ==
  [k \in 1..Len(b) |-> IF b[k] = NonTerminal(hd) THEN NonTerminal(name) ELSE b[k]]

FactorLevel(hd, bodies) ==
  IF BaseBodies(hd, bodies) = <<>> THEN <<<<Terminal(<<"i", "d">>)>>>>
  ELSE [k \in 1..Len(BaseBodies(hd, bodies)) |->
          Replaced(BaseBodies(hd, bodies)[k], hd, Named(hd, <<"F">>))]

PrecedenceRewritten(hd, bodies) ==
  /\ Out(hd) = Level(LowBodies(hd, bodies), hd, Named(hd, <<"T">>))
  /\ Out(Named(hd, <<"T">>)) =
       Level(HighBodies(hd, bodies), Named(hd, <<"T">>), Named(hd, <<"F">>))
  /\ Out(Named(hd, <<"F">>)) = FactorLevel(hd, bodies)

\* C14: the operator-precedence pass triggers for a head H only if H has
\* two alternatives `H op H` or more and both the high-precedence bucket
\* (*, /, %) and the low-precedence bucket are non-empty; then H becomes
\* `H op HT` per low operator plus `HT`, HT becomes `HT op HF` per high
\* operator plus `HF`, and HF becomes the base bodies with H replaced by HF
\* (or the body `id` when there is none).  In every other case the pass
\* reports no change for H.
C14_PrecedencePass ==
  Ran(1) =>
    /\ \A h \in 1..Len(grammar.productions) :
         PrecedenceTriggers(HeadAt(grammar, h), BodiesAt(grammar, h))
           => PrecedenceRewritten(HeadAt(grammar, h), BodiesAt(grammar, h))
    /\ once.changed =>
         \E h \in 1..Len(grammar.productions) :
            PrecedenceTriggers(HeadAt(grammar, h), BodiesAt(grammar, h))

\* the names a pass makes from a head with these suffixes are no heads of g
FreshNames(g, suffixes) ==
  \A h \in 1..Len(g.productions) : \A x \in suffixes :
     ~MapHas(g.productions, Named(HeadAt(g, h), x))

\* the rewriting of C14 on grammars in which HT and HF are new names, with
\* the change reported for every head of two operator alternatives or more
PrecedencePassFreshNames ==
  (Ran(1) /\ FreshNames(grammar, {<<"T">>, <<"F">>})) =>
    /\ \A h \in 1..Len(grammar.productions) :
         IF PrecedenceTriggers(HeadAt(grammar, h), BodiesAt(grammar, h))
         THEN PrecedenceRewritten(HeadAt(grammar, h), BodiesAt(grammar, h))
         ELSE Out(HeadAt(grammar, h)) = BodiesAt(grammar, h)
    /\ once.changed <=>
         \E h \in 1..Len(grammar.productions) :
            Len(OperatorBodies(HeadAt(grammar, h), BodiesAt(grammar, h))) >= 2

Starts(hd, b) == b[1] = NonTerminal(hd)

RecursiveBodies(hd, bodies) == SelectSeq(bodies, LAMBDA b : Starts(hd, b))
OtherBodies(hd, bodies) == SelectSeq(bodies, LAMBDA b : ~Starts(hd, b))

RecursionTriggers(hd, bodies) ==
  RecursiveBodies(hd, bodies) # <<>> /\ OtherBodies(hd, bodies) # <<>>

Prime(hd) == Named(hd, <<"'">>)

RecursionRewritten(hd, bodies) ==
  /\ Out(hd) = [k \in 1..Len(OtherBodies(hd, bodies)) |->
                 OtherBodies(hd, bodies)[k] \o <<NonTerminal(Prime(hd))>>]
  /\ Out(Prime(hd)) =
       [k \in 1..Len(RecursiveBodies(hd, bodies)) |->
          Tail(RecursiveBodies(hd, bodies)[k]) \o <<NonTerminal(Prime(hd))>>]
         \o <<<<Epsilon>>>>

ExampleLeftRecursion ==
  MakeGrammar(<<Entry(<<"E">>, <<<<NonTerminal(<<"E">>), Terminal(<<"+">>), NonTerminal(<<"T">>)>>,
                                 <<NonTerminal(<<"T">>)>>>>),
                Entry(<<"T">>, <<<<Terminal(<<"a">>)>>>>)>>)

\* C15: the left-recursion pass triggers for a head H exactly when H has an
\* alternative that starts with H and one that does not; then H becomes
\* each non-left-recursive body followed by H', and H' each left-recursive
\* tail followed by H', plus ε, in the order of the alternatives.
\* E -> E + T | T becomes E -> T E', E' -> + T E' | ε.
C15_LeftRecursionPass ==
  Ran(2) =>
    /\ \A h \in 1..Len(grammar.productions) :
         RecursionTriggers(HeadAt(grammar, h), BodiesAt(grammar, h))
           => RecursionRewritten(HeadAt(grammar, h), BodiesAt(grammar, h))
    /\ once.changed <=>
         \E h \in 1..Len(grammar.productions) :
            RecursionTriggers(HeadAt(grammar, h), BodiesAt(grammar, h))
    /\ grammar = ExampleLeftRecursion =>
         /\ Out(<<"E">>) = <<<<NonTerminal(<<"T">>), NonTerminal(<<"E", "'">>)>>>>
         /\ Out(<<"E", "'">>) =
              << <<Terminal(<<"+">>), NonTerminal(<<"T">>), NonTerminal(<<"E", "'">>)>>,
                 <<Epsilon>> >>

\* the rewriting of C15 on grammars in which H' is a new name
LeftRecursionPassFreshNames ==
  (Ran(2) /\ FreshNames(grammar, {<<"'">>})) =>
    /\ \A h \in 1..Len(grammar.productions) :
         IF RecursionTriggers(HeadAt(grammar, h), BodiesAt(grammar, h))
         THEN RecursionRewritten(HeadAt(grammar, h), BodiesAt(grammar, h))
         ELSE Out(HeadAt(grammar, h)) = BodiesAt(grammar, h)
    /\ once.changed <=>
         \E h \in 1..Len(grammar.productions) :
            RecursionTriggers(HeadAt(grammar, h), BodiesAt(grammar, h))

NoBodyStartsWithHead(g, hd) ==
  \A k \in 1..Len(MapGet(g.productions, hd)) : ~Starts(hd, MapGet(g.productions, hd)[k])

\* C16: when the left-recursion pass triggers on a grammar, running it
\* again on its own output reports no change, and no body of a rewritten
\* head H or of its H' starts with its own head.
C16_LeftRecursionIdempotent ==
  (RanTwice(2) /\ once.changed) =>
    /\ ~twice.changed
    /\ \A h \in 1..Len(grammar.productions) :
         RecursionTriggers(HeadAt(grammar, h), BodiesAt(grammar, h)) =>
           /\ NoBodyStartsWithHead(once.grammar, HeadAt(grammar, h))
           /\ NoBodyStartsWithHead(once.grammar, Prime(HeadAt(grammar, h)))

\* the same on grammars in which H' is a new name and no alternative is
\* the head alone
IdempotentWithoutUnitRecursion ==
  (RanTwice(2) /\ once.changed /\ FreshNames(grammar, {<<"'">>})
     /\ \A h \in 1..Len(grammar.productions) : \A k \in 1..Len(BodiesAt(grammar, h)) :
          BodiesAt(grammar, h)[k] # <<NonTerminal(HeadAt(grammar, h))>>) =>
    /\ ~twice.changed
    /\ \A h \in 1..Len(grammar.productions) :
         RecursionTriggers(HeadAt(grammar, h), BodiesAt(grammar, h)) =>
           /\ NoBodyStartsWithHead(once.grammar, HeadAt(grammar, h))
           /\ NoBodyStartsWithHead(once.grammar, Prime(HeadAt(grammar, h)))

\* the places of the alternatives that are the first with their first symbol
FirstPlaces(bodies) ==
  {i \in 1..Len(bodies) : \A j \in 1..(i - 1) : bodies[j][1] # bodies[i][1]}

\* the alternatives that share the first symbol of alternative i
GroupAt(bodies, i) == SelectSeq(bodies, LAMBDA b : b[1] = bodies[i][1])

\* the places that open a group of two alternatives or more
SharedPlaces(bodies) == {i \in FirstPlaces(bodies) : Len(GroupAt(bodies, i)) > 1}

RECURSIVE GroupsBefore(_, _)
GroupsBefore(g, h) ==
  IF h = 1 THEN 0
  ELSE GroupsBefore(g, h - 1) + Cardinality(SharedPlaces(BodiesAt(g, h - 1)))

\* the counter when the group opened by alternative i of head h is factored
NumberOf(g, h, i) ==
  1 + GroupsBefore(g, h) + Cardinality({j \in SharedPlaces(BodiesAt(g, h)) : j < i})

FactorName(g, h, i) == Named(HeadAt(g, h), Decimal(NumberOf(g, h, i)))

IsPrefixOfAll(p, group) ==
  \A m \in 1..Len(group) : Len(group[m]) >= Len(p) /\ SubSeq(group[m], 1, Len(p)) = p

LongestPrefix(group) ==
  CHOOSE p \in {SubSeq(group[1], 1, n) : n \in 0..Len(group[1])} :
    /\ IsPrefixOfAll(p, group)
    /\ \A n \in (Len(p) + 1)..Len(group[1]) : ~IsPrefixOfAll(SubSeq(group[1], 1, n), group)

Smallest(S, k) == CHOOSE i \in S : Cardinality({j \in S : j < i}) = k - 1

FactoredAlternatives(g, h) ==
  [k \in 1..Cardinality(FirstPlaces(BodiesAt(g, h))) |->
     LET i == Smallest(FirstPlaces(BodiesAt(g, h)), k)
         group == GroupAt(BodiesAt(g, h), i)
     IN IF Len(group) = 1 THEN group[1]
        ELSE LongestPrefix(group) \o <<NonTerminal(FactorName(g, h, i))>>]

Suffixes(group) ==
  [m \in 1..Len(group) |->
     IF Len(group[m]) = Len(LongestPrefix(group)) THEN <<Epsilon>>
     ELSE SubSeq(group[m], Len(LongestPrefix(group)) + 1, Len(group[m]))]

Factored(g, h) ==
  /\ Out(HeadAt(g, h)) = FactoredAlternatives(g, h)
  /\ \A i \in SharedPlaces(BodiesAt(g, h)) :
       Out(FactorName(g, h, i)) = Suffixes(GroupAt(BodiesAt(g, h), i))

ExampleFactoring ==
  MakeGrammar(<<Entry(<<"S">>,
                      << <<Terminal(<<"i">>), NonTerminal(<<"E">>), Terminal(<<"t">>),
                           NonTerminal(<<"S">>)>>,
                         <<Terminal(<<"i">>), NonTerminal(<<"E">>), Terminal(<<"t">>),
                           NonTerminal(<<"S">>), Terminal(<<"e">>), NonTerminal(<<"S">>)>>,
                         <<Terminal(<<"a">>)>> >>),
                Entry(<<"E">>, <<<<Terminal(<<"b">>)>>>>)>>)

\* C17: the left-factoring pass groups the alternatives of every head of two
\* alternatives or more by their first symbol; a group of more than one is
\* replaced by the alternative `prefix H+N`, prefix being the longest
\* prefix the group shares and N a counter that starts at 1 and increases
\* over the whole pass, and H+N gets the suffix of each member (ε for an
\* empty one); a group of one passes through unchanged.
\* S -> i E t S | i E t S e S | a becomes S -> i E t S S1 | a, S1 -> ε | e S.
C17_LeftFactorPass ==
  Ran(3) =>
    /\ \A h \in 1..Len(grammar.productions) :
         SharedPlaces(BodiesAt(grammar, h)) # {} => Factored(grammar, h)
    /\ grammar = ExampleFactoring =>
         /\ Out(<<"S">>) =
              << <<Terminal(<<"i">>), NonTerminal(<<"E">>), Terminal(<<"t">>),
                   NonTerminal(<<"S">>), NonTerminal(<<"S", "1">>)>>,
                 <<Terminal(<<"a">>)>> >>
         /\ Out(<<"S", "1">>) = << <<Epsilon>>, <<Terminal(<<"e">>), NonTerminal(<<"S">>)>> >>

\* the names the pass makes are no heads of g
FreshFactorNames(g) ==
  \A h \in 1..Len(g.productions) : \A i \in SharedPlaces(BodiesAt(g, h)) :
     ~MapHas(g.productions, FactorName(g, h, i))

\* the rewriting of C17 on grammars in which every H+N is a new name
LeftFactorPassFreshNames ==
  (Ran(3) /\ FreshFactorNames(grammar)) =>
    /\ \A h \in 1..Len(grammar.productions) :
         IF SharedPlaces(BodiesAt(grammar, h)) # {}
         THEN Factored(grammar, h)
         ELSE Out(HeadAt(grammar, h)) = BodiesAt(grammar, h)
    /\ once.changed <=>
         \E h \in 1..Len(grammar.productions) : SharedPlaces(BodiesAt(grammar, h)) # {}

Holds(b, word) == \E k \in 1..Len(b) : b[k].value = word

DanglingElseMatches(bodies) ==
  /\ \E k \in 1..Len(bodies) : Holds(bodies[k], KwIf) /\ Holds(bodies[k], KwElse)
  /\ \E k \in 1..Len(bodies) : Holds(bodies[k], KwIf) /\ ~Holds(bodies[k], KwElse)

IfThen(x) == <<Terminal(KwIf), Terminal(KwCond), Terminal(KwThen), NonTerminal(x)>>
IfThenElse(x, y) == IfThen(x) \o <<Terminal(KwElse), NonTerminal(y)>>

DanglingElseRewritten(hd, bodies) ==
  LET M == Named(hd, <<"M">>)
      U == Named(hd, <<"U">>)
  IN /\ Out(hd) = << <<NonTerminal(M)>>, <<NonTerminal(U)>> >>
     /\ Out(M) = SelectSeq(bodies, LAMBDA b : ~Holds(b, KwIf)) \o <<IfThenElse(M, M)>>
     /\ Out(U) = <<IfThen(hd), IfThenElse(M, U)>>

\* C18: when head H has a body with both `if` and `else` and another with
\* `if` and no `else`, the output of the dangling-else pass has
\* H -> HM | HU; HM -> every body of H without `if`, plus
\* `if cond then HM else HM`; HU -> `if cond then H` |
\* `if cond then HM else HU`; heads that do not match are left unchanged.
C18_DanglingElsePass ==
  Ran(4) =>
    \A h \in 1..Len(grammar.productions) :
      IF DanglingElseMatches(BodiesAt(grammar, h))
      THEN DanglingElseRewritten(HeadAt(grammar, h), BodiesAt(grammar, h))
      ELSE Out(HeadAt(grammar, h)) = BodiesAt(grammar, h)

\* the same on grammars in which HM and HU are new names
DanglingElsePassFreshNames ==
  (Ran(4) /\ FreshNames(grammar, {<<"M">>, <<"U">>})) =>
    /\ \A h \in 1..Len(grammar.productions) :
         IF DanglingElseMatches(BodiesAt(grammar, h))
         THEN DanglingElseRewritten(HeadAt(grammar, h), BodiesAt(grammar, h))
         ELSE Out(HeadAt(grammar, h)) = BodiesAt(grammar, h)
    /\ once.changed <=>
         \E h \in 1..Len(grammar.productions) : DanglingElseMatches(BodiesAt(grammar, h))

(***************************************************************************)
(* The language of a grammar, up to a length: the least sets of words (a   *)
(* word is the sequence of the terminal values of a derived string) closed *)
(* under the productions.                                                  *)
(***************************************************************************)
MaxWord == 5

SymbolWords(sym, L) ==
  IF sym.type = "terminal" THEN {<<sym.value>>}
  ELSE IF sym.type = "epsilon" THEN {<<>>}
  ELSE IF sym.value \in DOMAIN L THEN L[sym.value] ELSE {}

RECURSIVE BodyWords(_, _, _, _)
BodyWords(body, i, L, n) ==
  IF i > Len(body) THEN {<<>>}
  ELSE LET rest == BodyWords(body, i + 1, L, n)
       IN {w \in UNION {{u \o v : v \in rest} : u \in SymbolWords(body[i], L)} : Len(w) <= n}

LanguageStep(prods, L, n) ==
  [h \in DOMAIN L |->
     L[h] \cup UNION {BodyWords(b, 1, L, n) : b \in Range(MapGet(prods, h))}]

RECURSIVE LanguageFrom(_, _, _)
LanguageFrom(prods, L, n) ==
  LET M == LanguageStep(prods, L, n)
  IN IF M = L THEN L ELSE LanguageFrom(prods, M, n)

\* the words of at most n terminals derivable from the start symbol of g
Language(g, n) ==
  LanguageFrom(g.productions, [h \in Range(Heads(g.productions)) |-> {}], n)[g.startSymbol]

(***************************************************************************)
(* Claims about the whole pipeline (specification SpecTransform)           *)
(***************************************************************************)
\* C21: transformGrammar preserves the generated language: the grammar it
\* returns derives from its start symbol the same terminal strings (of at most
\* MaxWord terminals) as the grammar it was given.
C21_LanguagePreserved ==
  Returned =>
    Language(Now(outcome.grammar), MaxWord) = Language(Now(given), MaxWord)

(***************************************************************************)
(* Claims about trees and samples (specification SpecTree)                 *)
(***************************************************************************)
TreesBuilt == pc = "built"
TreesDisplayed == pc = "displayed"

\* the alternatives with the fewest symbols
ShortestAlternatives(bodies) ==
  {b \in Range(bodies) : \A c \in Range(bodies) : Len(b) <= Len(c)}

\* node is the tree of sym with `room` more levels of expansion allowed:
\* terminals and epsilon are leaves, a non-terminal carries the trees of the
\* symbols of one of its shortest alternatives, or nothing when room is 0
RECURSIVE TreeOf(_, _, _, _)
TreeOf(node, sym, g, room) ==
  /\ node.label = sym.value
  /\ node.isTerminal = (sym.type # "nonterminal")
  /\ IF sym.type # "nonterminal" \/ room = 0 THEN node.children = <<>>
     ELSE \E b \in ShortestAlternatives(MapGet(g.productions, sym.value)) :
            /\ Len(node.children) = Len(b)
            /\ \A k \in 1..Len(b) : TreeOf(node.children[k], b[k], g, room - 1)

\* ts holds one tree per alternative of the start symbol, in order, each
\* expanded down to one depth bound of at most maxDepth levels
TreesAsSpecified(g, ts, maxDepth) ==
  LET startBodies == MapGet(g.productions, g.startSymbol)
  IN /\ Len(ts) = Len(startBodies)
     /\ \E room \in 0..maxDepth :
          \A i \in 1..Len(ts) :
             /\ ts[i].label = g.startSymbol
             /\ ~ts[i].isTerminal
             /\ Len(ts[i].children) = Len(startBodies[i])
             /\ \A k \in 1..Len(startBodies[i]) :
                   TreeOf(ts[i].children[k], startBodies[i][k], g, room)

\* C22: a tree build returns one tree per alternative of the start symbol, the
\* root labelled with the start symbol and one child per symbol of the
\* alternative in order; terminal and epsilon children are leaves, and every
\* non-terminal child is expanded with a shortest alternative of that
\* non-terminal, recursively, down to the depth bound, where the node has no
\* children.  This is stated of both builders, generateParseTrees and
\* buildDisplayTrees.
C22_TreesAsSpecified ==
  (TreesBuilt \/ TreesDisplayed) => TreesAsSpecified(grammar, trees, limits.maxDepth)

\* buildDisplayTrees alone builds the trees C22 describes
DisplayTreesAsSpecified ==
  TreesDisplayed => TreesAsSpecified(grammar, trees, limits.maxDepth)

\* generateParseTrees builds them when every non-terminal has its shortest
\* alternative first and the start symbol has at most maxTrees alternatives
ShortestFirst(g) ==
  \A h \in 1..Len(g.productions) :
     g.productions[h].bodies[1] = ShortestBody(g.productions[h].bodies)

BuiltTreesAsSpecifiedShortestFirst ==
  (/\ TreesBuilt
   /\ ShortestFirst(grammar)
   /\ Len(MapGet(grammar.productions, grammar.startSymbol)) <= limits.maxTrees)
    => TreesAsSpecified(grammar, trees, limits.maxDepth)

Sampled == pc = "sampled"

\* the terminal tokens of a sample
Tokens(sample) == SplitOn(sample, " ")

LeftRecursive(g) ==
  \E h \in 1..Len(g.productions) : \E b \in Range(g.productions[h].bodies) :
     StartsWithHead(g.productions[h].head, b)

\* C23: generateSampleStrings returns at most maxSamples strings, pairwise
\* distinct and not empty, each the terminals of a string derivable from the
\* start symbol, at most maxLength of them, joined by single spaces; it
\* returns on every grammar, left-recursive and cyclic ones included.
C23_SamplesBoundedAndDerivable ==
  Sampled =>
    /\ Len(samples) <= limits.maxSamples
    /\ \A i, j \in 1..Len(samples) : i # j => samples[i] # samples[j]
    /\ \A i \in 1..Len(samples) :
         /\ samples[i] # <<>>
         /\ Len(Tokens(samples[i])) <= limits.maxLength
         /\ Tokens(samples[i]) \in Language(grammar, limits.maxLength)

\* a left-recursive grammar whose samples reach the cap, one of them of full length
C23_Witness ==
  /\ Sampled
  /\ LeftRecursive(grammar)
  /\ limits.maxSamples > 1
  /\ Len(samples) = limits.maxSamples
  /\ \E i \in 1..Len(samples) : Len(Tokens(samples[i])) = limits.maxLength

(***************************************************************************)
(* Claims about the grammars of the pipeline (specification SpecTransform) *)
(***************************************************************************)
\* every non-terminal symbol of every body of g is a key of g.productions and
\* a member of g.nonTerminals
Closed(g) ==
  \A sym \in Range(AllSymbols(g.productions)) :
     sym.type = "nonterminal" =>
       /\ MapHas(g.productions, sym.value)
       /\ sym.value \in Range(g.nonTerminals)

\* C24: in the grammar parseGrammar returned and in every grammar of the
\* pipeline run on it (the clone, the grammar after each pass, the grammar
\* transformGrammar returns), every non-terminal symbol that occurs in a body
\* is a key of `productions` and a member of `nonTerminals`.
C24_NonTerminalsDefined ==
  /\ pc = "transform" =>
       LET parsed == ParseGrammar(GrammarToString(Now(given)))
       IN parsed.grammar # Null => Closed(parsed.grammar[1])
  /\ Closed(Now(given))
  /\ pc # "transform" => Closed(Now(current))
  /\ Returned => Closed(Now(outcome.grammar))

\* the same of every grammar parseGrammar returns (specification SpecParse)
ParsedGrammarClosed ==
  (Parsed /\ result.grammar # Null) => Closed(result.grammar[1])

\* a returned grammar with a non-terminal that a pass introduced
C24_Witness ==
  /\ Returned
  /\ Len(outcome.steps) >= 2
  /\ \E sym \in Range(AllSymbols(Now(outcome.grammar).productions)) :
        /\ sym.type = "nonterminal"
        /\ ~MapHas(Now(given).productions, sym.value)

(***************************************************************************)
(* Claims about node ids (specification SpecTree)                          *)
(***************************************************************************)
\* the trees a build returns, ids included, are those of the same call made
\* in a process where no other build ran
IdsDependOnArguments ==
  /\ TreesBuilt =>
       trees = GenerateParseTrees(grammar, limits.maxTrees, limits.maxDepth).trees
  /\ TreesDisplayed => trees = BuildDisplayTrees(grammar, limits.maxDepth)

\* C25: the node ids of the trees a build returns depend only on the
\* arguments of that build, whatever builds ran before it, because the id
\* counter is scoped to the build and is not state of the process: no build
\* leaves a value in a counter that outlives it.
C25_IdCounterBuildScoped ==
  /\ IdsDependOnArguments
  /\ nodeCounter = 0

(***************************************************************************)
(* Claims about the names the passes introduce (specification SpecPass)    *)
(***************************************************************************)
\* whether pass k rewrites head h of g
TriggersOn(k, g, h) ==
  CASE k = 1 -> PrecedenceTriggers(HeadAt(g, h), BodiesAt(g, h))
    [] k = 2 -> RecursionTriggers(HeadAt(g, h), BodiesAt(g, h))
    [] k = 3 -> SharedPlaces(BodiesAt(g, h)) # {}
    [] k = 4 -> DanglingElseMatches(BodiesAt(g, h))

\* the names pass k introduces for head h of g: HT and HF, H', H+N, HM and HU
IntroducedFor(k, g, h) ==
  CASE k = 1 -> {Named(HeadAt(g, h), <<"T">>), Named(HeadAt(g, h), <<"F">>)}
    [] k = 2 -> {Prime(HeadAt(g, h))}
    [] k = 3 -> {FactorName(g, h, i) : i \in SharedPlaces(BodiesAt(g, h))}
    [] k = 4 -> {Named(HeadAt(g, h), <<"M">>), Named(HeadAt(g, h), <<"U">>)}

\* C26: every non-terminal a pass introduces is fresh: it is no head of the
\* grammar the pass receives, and the pass leaves the productions of every
\* head it does not rewrite as they were.
C26_IntroducedNamesFresh ==
  \A k \in 1..4 :
     Ran(k) =>
       \A h \in 1..Len(grammar.productions) :
          IF TriggersOn(k, grammar, h)
          THEN \A name \in IntroducedFor(k, grammar, h) :
                  ~MapHas(grammar.productions, name)
          ELSE Out(HeadAt(grammar, h)) = BodiesAt(grammar, h)

(***************************************************************************)
(* Claims about the dangling else in the pipeline (SpecTransform)          *)
(***************************************************************************)
\* detectAmbiguity reports a "Dangling Else" reason for head h of g
DanglingReported(g, h) == DanglingReasons(HeadAt(g, h), BodiesAt(g, h)) # <<>>

\* the example of the dangling else: S -> if cond then S else S | if cond then S | other
ExampleDanglingElse ==
  <<[head |-> <<"S">>,
     bodies |-> <<IfThenElse(<<"S">>, <<"S">>), IfThen(<<"S">>),
                  <<Terminal(<<"o", "t", "h", "e", "r">>)>> >>]>>

\* C27: for every head H for which detectAmbiguity reports a "Dangling Else"
\* reason in the grammar given to transformGrammar, the pipeline logs a
\* "Dangling Else Resolution" step and returns a grammar in which H is
\* rewritten to HM | HU; the earlier passes do not keep the dangling-else
\* pass from triggering.
C27_DanglingElseResolved ==
  Returned =>
    \A h \in 1..Len(Now(given).productions) :
       DanglingReported(Now(given), h) =>
         /\ \E i \in 1..Len(outcome.steps) : outcome.steps[i].name = PassNames[4]
         /\ MapGet(Now(outcome.grammar).productions, HeadAt(Now(given), h))
              = << <<NonTerminal(Named(HeadAt(Now(given), h), <<"M">>))>>,
                   <<NonTerminal(Named(HeadAt(Now(given), h), <<"U">>))>> >>

\* the pipeline has returned on the example
DanglingExampleReturned ==
  Returned /\ Now(given).productions = ExampleDanglingElse

(***************************************************************************)
(* Claims about the order of the alternatives (specification SpecFF)       *)
(***************************************************************************)
ConflictsChecked == pc \in {"ll1", "done"}

\* the grammar parsed from the text of g with the alternatives of head h
\* written in the order p
Permuted(g, h, p) ==
  MakeGrammar([g.productions EXCEPT
                 ![h].bodies = [k \in 1..Len(@) |-> @[p[k]]]])

\* a FIRST/FOLLOW conflict is reported for the head
FirstFollowReported(cs, head) ==
  \E i \in 1..Len(cs) : cs[i].kind = "FIRST/FOLLOW" /\ cs[i].head = head

\* C28: whether checkLL1Conflicts reports a FIRST/FOLLOW conflict for a head
\* does not depend on the order of the alternatives of that head: it reports
\* one for the head in G if and only if it reports one in every grammar that
\* is G with the alternatives of the head permuted.
C28_ConflictsOrderFree ==
  ConflictsChecked =>
    \A h \in 1..Len(grammar.productions) :
       \A p \in Permutations(1..Len(BodiesAt(grammar, h))) :
          LET g2 == Permuted(grammar, h, p)
          IN FirstFollowReported(conflicts, HeadAt(grammar, h))
               <=> FirstFollowReported(CheckLL1Conflicts(g2, ComputeFirstFollow(g2)),
                                       HeadAt(grammar, h))

(***************************************************************************)
(* Claims about the page (specification SpecPage)                          *)
(***************************************************************************)
\* C29: the stored artifacts all belong to the same analyze request: whenever
\* the last completed analyze had parse errors (the grammar cell is null), the
\* FIRST and FOLLOW sets, the list of LL(1) conflicts, the converted grammar
\* and its text are empty too, so nothing of an earlier successful analysis
\* remains.
C29_ArtifactsOfOneRequest ==
  page.grammar = Null =>
    /\ page.ambiguityResult = Null
    /\ page.transformResult = Null
    /\ page.firstSets = Null
    /\ page.followSets = Null
    /\ page.ll1Conflicts = <<>>
    /\ page.convertedGrammar = Null
    /\ page.convertedGrammarText = <<>>

\* the cells the callback does reset after a parse with errors
ResetAfterErrors ==
  page.grammar = Null => page.ambiguityResult = Null /\ page.transformResult = Null

\* after an analysis without parse errors every cell holds what the calls
\* return on the grammar of the grammar cell
ArtifactsOfStoredGrammar ==
  page.grammar # Null =>
    LET g == page.grammar[1]
        ff == ComputeFirstFollow(g)
    IN /\ page.firstSets = Some(ff.first)
       /\ page.followSets = Some(ff.follow)
       /\ page.ll1Conflicts = CheckLL1Conflicts(g, ff)
       /\ page.ambiguityResult = Some(DetectAmbiguity(g))
       /\ page.transformResult = Some(TransformGrammar(g))
       /\ page.convertedGrammar = Some(TransformGrammar(g).grammar)
       /\ page.convertedGrammarText = GrammarToString(TransformGrammar(g).grammar)

(***************************************************************************)
(* Claims about the output of left factoring (specification SpecPass)      *)
(***************************************************************************)
\* no head of g has two alternatives that begin with the same symbol
NoSharedStart(g) ==
  \A h \in 1..Len(g.productions) : SharedPlaces(BodiesAt(g, h)) = {}

\* C30: after the left-factoring pass no head of the output grammar, original
\* or introduced, has two alternatives that begin with the same symbol (same
\* type and value), and the pass run again on its output reports no change.
C30_LeftFactorComplete ==
  /\ Ran(3) => NoSharedStart(once.grammar)
  /\ RanTwice(3) => ~twice.changed

\* the second run reports a change exactly when a head of the output of the
\* first has two alternatives that begin with the same symbol
SecondRunChangesIffSharedStart ==
  RanTwice(3) => (twice.changed <=> ~NoSharedStart(once.grammar))

====
